---- MODULE Spec2Model ----
(***************************************************************************)
(* Model of the builders and converters of src/utils/mod.rs of the         *)
(* tss-esapi crate: TpmsRsaParmsBuilder, TpmsEccParmsBuilder,              *)
(* Tpm2BPublicBuilder, AsymSchemeUnion and the create_*_public helpers.    *)
(*                                                                         *)
(* Every build() is a pure function of the builder's fields; it is an      *)
(* operator here, returning Ok(value) or Err(kind).  The state machine is  *)
(* a caller that constructs a builder (named constructor, struct literal   *)
(* or chained setters) and then calls build() on it.                       *)
(***************************************************************************)
EXTENDS Integers, Sequences, FiniteSets, TLC

VARIABLES builder, call

vars == <<builder, call>>

----------------------------------------------------------------------------
(* Option<T> and Result<T>                                                 *)

None == <<>>

Some(x) == <<x>>

is_none(o) == o = <<>>

is_some(o) == o # <<>>

unwrap(o) == o[1]

Option(S) == {None} \cup {Some(x) : x \in S}

Ok(v) == [kind |-> "Ok", val |-> Some(v)]

Err(e) == [kind |-> e, val |-> None]

----------------------------------------------------------------------------
(* Bounds of the model                                                     *)

\* ECDAA carries a u16 counter; the model draws it from 0..MaxCount
MaxCount == 1

\* auth policy digests are drawn with sizes 0..MaxDigest
MaxDigest == 1

----------------------------------------------------------------------------
(* Algorithm identifiers (crate::constants), kept as opaque distinct tags  *)

TPM2_ALG_RSA == "TPM2_ALG_RSA"

TPM2_ALG_ECC == "TPM2_ALG_ECC"

TPM2_ALG_KEYEDHASH == "TPM2_ALG_KEYEDHASH"

TPM2_ALG_SYMCIPHER == "TPM2_ALG_SYMCIPHER"

TPM2_ALG_NULL == "TPM2_ALG_NULL"

TPM2_ALG_AES == "TPM2_ALG_AES"

TPM2_ALG_CFB == "TPM2_ALG_CFB"

TPM2_ALG_SHA1 == "TPM2_ALG_SHA1"

TPM2_ALG_SHA256 == "TPM2_ALG_SHA256"

TPM2_ALG_RSASSA == "TPM2_ALG_RSASSA"

TPM2_ALG_RSAES == "TPM2_ALG_RSAES"

TPM2_ALG_RSAPSS == "TPM2_ALG_RSAPSS"

TPM2_ALG_OAEP == "TPM2_ALG_OAEP"

TPM2_ALG_ECDSA == "TPM2_ALG_ECDSA"

TPM2_ALG_ECDH == "TPM2_ALG_ECDH"

TPM2_ALG_ECDAA == "TPM2_ALG_ECDAA"

TPM2_ALG_SM2 == "TPM2_ALG_SM2"

TPM2_ALG_ECSCHNORR == "TPM2_ALG_ECSCHNORR"

TPM2_ALG_ECMQV == "TPM2_ALG_ECMQV"

----------------------------------------------------------------------------
(* algorithm_specifiers: HashingAlgorithm, EllipticCurve, Cipher           *)

HashingAlgorithm == {"Sha1", "Sha256"}

\* u16::from(HashingAlgorithm)
HashingAlgorithm_into(h) ==
    CASE h = "Sha1" -> TPM2_ALG_SHA1
      [] h = "Sha256" -> TPM2_ALG_SHA256

EllipticCurve ==
    {"NistP192", "NistP224", "NistP256", "NistP384", "NistP521",
     "BnP256", "BnP638", "Sm2P256"}

\* TPM2_ECC_CURVE::from(EllipticCurve)
EllipticCurve_into(c) == <<"TPM2_ECC", c>>

Cipher == {"aes_128_cfb", "aes_256_cfb"}

\* TPMT_SYM_DEF_OBJECT::from(Cipher)
Cipher_into(c) ==
    [algorithm |-> TPM2_ALG_AES,
     keyBits |-> IF c = "aes_128_cfb" THEN 128 ELSE 256,
     mode |-> TPM2_ALG_CFB]

\* the TPMT_SYM_DEF_OBJECT values a caller hands to the RSA builder
SymDefObjects == {Cipher_into(c) : c \in Cipher}

----------------------------------------------------------------------------
(* AsymSchemeUnion                                                         *)

Scheme(tag, hash, count) == [tag |-> tag, hash |-> hash, count |-> count]

AsymSchemeUnion ==
    {Scheme(t, Some(h), None) :
        t \in {"ECDH", "ECMQV", "RSASSA", "RSAPSS", "ECDSA", "SM2",
               "ECSchnorr", "RSAOAEP"},
        h \in HashingAlgorithm}
    \cup {Scheme("ECDAA", Some(h), Some(n)) :
            h \in HashingAlgorithm, n \in 0..MaxCount}
    \cup {Scheme("RSAES", None, None)}
    \cup {Scheme("AnySig", oh, None) : oh \in Option(HashingAlgorithm)}

scheme_id(self) ==
    CASE self.tag = "ECDH" -> TPM2_ALG_ECDH
      [] self.tag = "ECMQV" -> TPM2_ALG_ECMQV
      [] self.tag = "RSASSA" -> TPM2_ALG_RSASSA
      [] self.tag = "RSAPSS" -> TPM2_ALG_RSAPSS
      [] self.tag = "ECDSA" -> TPM2_ALG_ECDSA
      [] self.tag = "ECDAA" -> TPM2_ALG_ECDAA
      [] self.tag = "SM2" -> TPM2_ALG_SM2
      [] self.tag = "ECSchnorr" -> TPM2_ALG_ECSCHNORR
      [] self.tag = "RSAES" -> TPM2_ALG_RSAES
      [] self.tag = "RSAOAEP" -> TPM2_ALG_OAEP
      [] self.tag = "AnySig" -> TPM2_ALG_NULL

\* the union member written and the value written to it
get_details(self) ==
    CASE self.tag = "ECDH" ->
            [member |-> "ecdh", hashAlg |-> Some(HashingAlgorithm_into(unwrap(self.hash))), count |-> None]
      [] self.tag = "ECMQV" ->
            [member |-> "ecmqv", hashAlg |-> Some(HashingAlgorithm_into(unwrap(self.hash))), count |-> None]
      [] self.tag = "RSASSA" ->
            [member |-> "rsassa", hashAlg |-> Some(HashingAlgorithm_into(unwrap(self.hash))), count |-> None]
      [] self.tag = "RSAPSS" ->
            [member |-> "rsapss", hashAlg |-> Some(HashingAlgorithm_into(unwrap(self.hash))), count |-> None]
      [] self.tag = "ECDSA" ->
            [member |-> "ecdsa", hashAlg |-> Some(HashingAlgorithm_into(unwrap(self.hash))), count |-> None]
      [] self.tag = "ECDAA" ->
            [member |-> "ecdaa", hashAlg |-> Some(HashingAlgorithm_into(unwrap(self.hash))), count |-> self.count]
      [] self.tag = "SM2" ->
            [member |-> "sm2", hashAlg |-> Some(HashingAlgorithm_into(unwrap(self.hash))), count |-> None]
      [] self.tag = "ECSchnorr" ->
            [member |-> "ecschnorr", hashAlg |-> Some(HashingAlgorithm_into(unwrap(self.hash))), count |-> None]
      [] self.tag = "RSAES" ->
            [member |-> "rsaes", hashAlg |-> None, count |-> None]
      [] self.tag = "RSAOAEP" ->
            [member |-> "oaep", hashAlg |-> Some(HashingAlgorithm_into(unwrap(self.hash))), count |-> None]
      [] self.tag = "AnySig" ->
            [member |-> "anySig",
             hashAlg |-> IF is_some(self.hash)
                         THEN Some(HashingAlgorithm_into(unwrap(self.hash)))
                         ELSE Some(TPM2_ALG_NULL),
             count |-> None]

get_rsa_scheme_struct(self) ==
    [scheme |-> scheme_id(self), details |-> get_details(self)]

get_ecc_scheme_struct(self) ==
    [scheme |-> scheme_id(self), details |-> get_details(self)]

\* a TPM2_ALG_ID left at Default::default(), the zero word
TPM2_ALG_ERROR == "TPM2_ALG_ERROR"

\* TPMT_SYM_DEF_OBJECT with Default::default() fields and algorithm NULL
NullSymDefObject ==
    [algorithm |-> TPM2_ALG_NULL, keyBits |-> 0, mode |-> TPM2_ALG_ERROR]

----------------------------------------------------------------------------
(* TpmsRsaParmsBuilder                                                     *)

RSA_KEY_SIZES == {1024, 2048, 3072, 4096}

\* the exponents a caller passes: 0 stands for the default 2^16 + 1
Exponents == {0, 65537}

TpmsRsaParmsBuilder ==
    [symmetric : Option(SymDefObjects),
     scheme : Option(AsymSchemeUnion),
     key_bits : RSA_KEY_SIZES,
     exponent : Exponents,
     for_signing : BOOLEAN,
     for_decryption : BOOLEAN,
     restricted : BOOLEAN]

TpmsRsaParmsBuilder_new_restricted_decryption_key(symmetric, key_bits, exponent) ==
    [symmetric |-> Some(symmetric),
     scheme |-> Some(Scheme("AnySig", None, None)),
     key_bits |-> key_bits,
     exponent |-> exponent,
     for_signing |-> FALSE,
     for_decryption |-> TRUE,
     restricted |-> TRUE]

TpmsRsaParmsBuilder_new_unrestricted_signing_key(scheme, key_bits, exponent) ==
    [symmetric |-> None,
     scheme |-> Some(scheme),
     key_bits |-> key_bits,
     exponent |-> exponent,
     for_signing |-> TRUE,
     for_decryption |-> FALSE,
     restricted |-> FALSE]

\* build() with RSASSA left out of the schemes of a restricted signing key
TpmsRsaParmsBuilder_build_scheme_no_rsassa(self, symmetric) ==
    LET scheme == get_rsa_scheme_struct(unwrap(self.scheme)) IN
    IF self.restricted
    THEN IF /\ self.for_signing
            /\ scheme.scheme # TPM2_ALG_RSAPSS
         THEN Err("InconsistentParams")
         ELSE IF self.for_decryption /\ scheme.scheme # TPM2_ALG_NULL
         THEN Err("InconsistentParams")
         ELSE Ok([symmetric |-> symmetric, scheme |-> scheme,
                  keyBits |-> self.key_bits, exponent |-> self.exponent])
    ELSE IF self.for_decryption /\ self.for_signing /\ scheme.scheme # TPM2_ALG_NULL
         THEN Err("InconsistentParams")
         ELSE IF /\ self.for_signing
                 /\ scheme.scheme # TPM2_ALG_RSAPSS
                 /\ scheme.scheme # TPM2_ALG_RSASSA
                 /\ scheme.scheme # TPM2_ALG_NULL
         THEN Err("InconsistentParams")
         ELSE IF /\ self.for_decryption
                 /\ scheme.scheme # TPM2_ALG_RSAES
                 /\ scheme.scheme # TPM2_ALG_OAEP
                 /\ scheme.scheme # TPM2_ALG_NULL
         THEN Err("InconsistentParams")
         ELSE Ok([symmetric |-> symmetric, scheme |-> scheme,
                  keyBits |-> self.key_bits, exponent |-> self.exponent])

\* lines 266-307 of build(): the scheme is present
TpmsRsaParmsBuilder_build_scheme(self, symmetric) ==
    LET scheme == get_rsa_scheme_struct(unwrap(self.scheme)) IN
    IF self.restricted
    THEN IF /\ self.for_signing
            /\ scheme.scheme # TPM2_ALG_RSAPSS
            /\ scheme.scheme # TPM2_ALG_RSASSA
         THEN Err("InconsistentParams")
         ELSE IF self.for_decryption /\ scheme.scheme # TPM2_ALG_NULL
         THEN Err("InconsistentParams")
         ELSE Ok([symmetric |-> symmetric, scheme |-> scheme,
                  keyBits |-> self.key_bits, exponent |-> self.exponent])
    ELSE IF self.for_decryption /\ self.for_signing /\ scheme.scheme # TPM2_ALG_NULL
         THEN Err("InconsistentParams")
         ELSE IF /\ self.for_signing
                 /\ scheme.scheme # TPM2_ALG_RSAPSS
                 /\ scheme.scheme # TPM2_ALG_RSASSA
                 /\ scheme.scheme # TPM2_ALG_NULL
         THEN Err("InconsistentParams")
         ELSE IF /\ self.for_decryption
                 /\ scheme.scheme # TPM2_ALG_RSAES
                 /\ scheme.scheme # TPM2_ALG_OAEP
                 /\ scheme.scheme # TPM2_ALG_NULL
         THEN Err("InconsistentParams")
         ELSE Ok([symmetric |-> symmetric, scheme |-> scheme,
                  keyBits |-> self.key_bits, exponent |-> self.exponent])

\* build() looking for the scheme before it looks at the symmetric cipher
TpmsRsaParmsBuilder_build_scheme_first(self) ==
    IF is_none(self.scheme)
    THEN Err("ParamsMissing")
    ELSE IF self.restricted /\ self.for_decryption /\ is_none(self.symmetric)
    THEN Err("ParamsMissing")
    ELSE IF ~(self.restricted /\ self.for_decryption) /\ is_some(self.symmetric)
    THEN Err("InconsistentParams")
    ELSE TpmsRsaParmsBuilder_build_scheme(self,
             IF is_some(self.symmetric) THEN unwrap(self.symmetric)
             ELSE NullSymDefObject)

\* build() reporting a missing scheme as an inconsistency
TpmsRsaParmsBuilder_build_scheme_inconsistent(self) ==
    IF self.restricted /\ self.for_decryption /\ is_none(self.symmetric)
    THEN Err("ParamsMissing")
    ELSE IF ~(self.restricted /\ self.for_decryption) /\ is_some(self.symmetric)
    THEN Err("InconsistentParams")
    ELSE IF is_none(self.scheme)
    THEN Err("InconsistentParams")
    ELSE TpmsRsaParmsBuilder_build_scheme(self,
             IF is_some(self.symmetric) THEN unwrap(self.symmetric)
             ELSE NullSymDefObject)

TpmsRsaParmsBuilder_build(self) ==
    IF self.restricted /\ self.for_decryption /\ is_none(self.symmetric)
    THEN Err("ParamsMissing")
    ELSE IF ~(self.restricted /\ self.for_decryption) /\ is_some(self.symmetric)
    THEN Err("InconsistentParams")
    ELSE LET symmetric == IF is_some(self.symmetric)
                          THEN unwrap(self.symmetric)
                          ELSE NullSymDefObject
         IN IF is_none(self.scheme)
            THEN Err("ParamsMissing")
            ELSE TpmsRsaParmsBuilder_build_scheme(self, symmetric)

----------------------------------------------------------------------------
(* TpmsEccParmsBuilder                                                     *)

TpmsEccParmsBuilder ==
    [symmetric : Option(Cipher),
     scheme : AsymSchemeUnion,
     curve : EllipticCurve,
     for_signing : BOOLEAN,
     for_decryption : BOOLEAN,
     restricted : BOOLEAN]

\* new_restricted_decryption_key() forgetting the restricted flag
TpmsEccParmsBuilder_new_decryption_key_unrestricted(symmetric, curve) ==
    [symmetric |-> Some(symmetric),
     scheme |-> Scheme("AnySig", None, None),
     curve |-> curve,
     for_signing |-> FALSE,
     for_decryption |-> TRUE,
     restricted |-> FALSE]

TpmsEccParmsBuilder_new_restricted_decryption_key(symmetric, curve) ==
    [symmetric |-> Some(symmetric),
     scheme |-> Scheme("AnySig", None, None),
     curve |-> curve,
     for_signing |-> FALSE,
     for_decryption |-> TRUE,
     restricted |-> TRUE]

TpmsEccParmsBuilder_new_unrestricted_signing_key(scheme, curve) ==
    [symmetric |-> None,
     scheme |-> scheme,
     curve |-> curve,
     for_signing |-> TRUE,
     for_decryption |-> FALSE,
     restricted |-> FALSE]

\* build() requiring ECDAA on BnP256 only
TpmsEccParmsBuilder_build_scheme_one_bn_curve(self) ==
    LET scheme == get_ecc_scheme_struct(self.scheme) IN
    IF /\ self.for_signing
       /\ scheme.scheme # TPM2_ALG_ECDSA
       /\ scheme.scheme # TPM2_ALG_ECDAA
       /\ scheme.scheme # TPM2_ALG_SM2
       /\ scheme.scheme # TPM2_ALG_ECSCHNORR
    THEN Err("InconsistentParams")
    ELSE IF /\ self.for_decryption
            /\ scheme.scheme # TPM2_ALG_SM2
            /\ scheme.scheme # TPM2_ALG_ECDH
            /\ scheme.scheme # TPM2_ALG_ECMQV
            /\ scheme.scheme # TPM2_ALG_NULL
    THEN Err("InconsistentParams")
    ELSE IF self.curve = "BnP256" /\ scheme.scheme # TPM2_ALG_ECDAA
    THEN Err("InconsistentParams")
    ELSE Ok([symmetric |-> IF is_some(self.symmetric)
                           THEN Cipher_into(unwrap(self.symmetric))
                           ELSE NullSymDefObject,
             scheme |-> scheme,
             curveID |-> EllipticCurve_into(self.curve),
             kdf |-> [scheme |-> TPM2_ALG_NULL, details |-> None]])

\* build() accepting any scheme for a signing key
TpmsEccParmsBuilder_build_scheme_any_signing(self) ==
    LET scheme == get_ecc_scheme_struct(self.scheme) IN
    IF /\ self.for_decryption
       /\ scheme.scheme # TPM2_ALG_SM2
       /\ scheme.scheme # TPM2_ALG_ECDH
       /\ scheme.scheme # TPM2_ALG_ECMQV
       /\ scheme.scheme # TPM2_ALG_NULL
    THEN Err("InconsistentParams")
    ELSE IF /\ (self.curve = "BnP256" \/ self.curve = "BnP638")
            /\ scheme.scheme # TPM2_ALG_ECDAA
    THEN Err("InconsistentParams")
    ELSE Ok([symmetric |-> IF is_some(self.symmetric)
                           THEN Cipher_into(unwrap(self.symmetric))
                           ELSE NullSymDefObject,
             scheme |-> scheme,
             curveID |-> EllipticCurve_into(self.curve),
             kdf |-> [scheme |-> TPM2_ALG_NULL, details |-> None]])

\* lines 376-419 of build(): scheme, curve and the parameter structure
TpmsEccParmsBuilder_build_scheme(self) ==
    LET scheme == get_ecc_scheme_struct(self.scheme) IN
    IF /\ self.for_signing
       /\ scheme.scheme # TPM2_ALG_ECDSA
       /\ scheme.scheme # TPM2_ALG_ECDAA
       /\ scheme.scheme # TPM2_ALG_SM2
       /\ scheme.scheme # TPM2_ALG_ECSCHNORR
    THEN Err("InconsistentParams")
    ELSE IF /\ self.for_decryption
            /\ scheme.scheme # TPM2_ALG_SM2
            /\ scheme.scheme # TPM2_ALG_ECDH
            /\ scheme.scheme # TPM2_ALG_ECMQV
            /\ scheme.scheme # TPM2_ALG_NULL
    THEN Err("InconsistentParams")
    ELSE IF /\ (self.curve = "BnP256" \/ self.curve = "BnP638")
            /\ scheme.scheme # TPM2_ALG_ECDAA
    THEN Err("InconsistentParams")
    ELSE Ok([symmetric |-> IF is_some(self.symmetric)
                           THEN Cipher_into(unwrap(self.symmetric))
                           ELSE NullSymDefObject,
             scheme |-> scheme,
             curveID |-> EllipticCurve_into(self.curve),
             kdf |-> [scheme |-> TPM2_ALG_NULL, details |-> None]])

\* build() without the check that forbids signing and decryption together
TpmsEccParmsBuilder_build_sign_and_decrypt(self) ==
    IF self.restricted /\ self.for_decryption /\ is_none(self.symmetric)
    THEN Err("ParamsMissing")
    ELSE IF ~(self.restricted /\ self.for_decryption) /\ is_some(self.symmetric)
    THEN Err("InconsistentParams")
    ELSE TpmsEccParmsBuilder_build_scheme(self)

\* build() asking every restricted key for a symmetric cipher
TpmsEccParmsBuilder_build_restricted_symmetric(self) ==
    IF self.restricted /\ is_none(self.symmetric)
    THEN Err("ParamsMissing")
    ELSE IF ~self.restricted /\ is_some(self.symmetric)
    THEN Err("InconsistentParams")
    ELSE IF self.for_decryption /\ self.for_signing
    THEN Err("InconsistentParams")
    ELSE TpmsEccParmsBuilder_build_scheme(self)

TpmsEccParmsBuilder_build(self) ==
    IF self.restricted /\ self.for_decryption /\ is_none(self.symmetric)
    THEN Err("ParamsMissing")
    ELSE IF ~(self.restricted /\ self.for_decryption) /\ is_some(self.symmetric)
    THEN Err("InconsistentParams")
    ELSE IF self.for_decryption /\ self.for_signing
    THEN Err("InconsistentParams")
    ELSE TpmsEccParmsBuilder_build_scheme(self)

----------------------------------------------------------------------------
(* ObjectAttributes: the 32-bit word as the set of its set bits            *)

set_bit(attrs, bit, value) == IF value THEN attrs \cup {bit} ELSE attrs \ {bit}

set_fixed_tpm(attrs, value) == set_bit(attrs, 1, value)

set_fixed_parent(attrs, value) == set_bit(attrs, 4, value)

set_sensitive_data_origin(attrs, value) == set_bit(attrs, 5, value)

set_user_with_auth(attrs, value) == set_bit(attrs, 6, value)

set_restricted(attrs, value) == set_bit(attrs, 16, value)

set_decrypt(attrs, value) == set_bit(attrs, 17, value)

set_sign_encrypt(attrs, value) == set_bit(attrs, 18, value)

new_fixed_parent_key ==
    set_restricted(set_decrypt(set_user_with_auth(set_sensitive_data_origin(
        set_fixed_parent(set_fixed_tpm({}, TRUE), TRUE), TRUE), TRUE), TRUE), TRUE)

new_fixed_signing_key ==
    set_sign_encrypt(set_user_with_auth(set_sensitive_data_origin(
        set_fixed_parent(set_fixed_tpm({}, TRUE), TRUE), TRUE), TRUE), TRUE)

----------------------------------------------------------------------------
(* PublicParmsUnion, PublicIdUnion and the values they carry               *)

\* a TPM2B_DIGEST: a size word and a fixed buffer, the buffer kept opaque
TPM2B_DIGEST == [size : 0..MaxDigest, buffer : {"zeroes", "digest"}]

Default_TPM2B_DIGEST == [size |-> 0, buffer |-> "zeroes"]

RsaParms ==
    {unwrap(TpmsRsaParmsBuilder_build(b).val) :
        b \in {TpmsRsaParmsBuilder_new_restricted_decryption_key(
                   Cipher_into("aes_256_cfb"), 2048, 0),
               TpmsRsaParmsBuilder_new_unrestricted_signing_key(
                   Scheme("RSASSA", Some("Sha256"), None), 2048, 0)}}

EccParms ==
    {unwrap(TpmsEccParmsBuilder_build(b).val) :
        b \in {TpmsEccParmsBuilder_new_restricted_decryption_key(
                   "aes_256_cfb", "NistP256"),
               TpmsEccParmsBuilder_new_unrestricted_signing_key(
                   Scheme("ECDSA", Some("Sha256"), None), "NistP256")}}

Variant(variant, value) == [variant |-> variant, value |-> value]

PublicParmsUnion ==
    {Variant("KeyedHashDetail", [keyedHashDetail |-> "TPMS_KEYEDHASH_PARMS"])}
    \cup {Variant("SymDetail", [cipher |-> c]) : c \in Cipher}
    \cup {Variant("RsaDetail", p) : p \in RsaParms}
    \cup {Variant("EccDetail", p) : p \in EccParms}
    \cup {Variant("AsymDetail", [asymDetail |-> "TPMS_ASYM_PARMS"])}

PublicIdUnion ==
    {Variant("KeyedHash", d) : d \in TPM2B_DIGEST}
    \cup {Variant("Sym", d) : d \in TPM2B_DIGEST}
    \cup {Variant("Rsa", [rsa |-> k]) : k \in {"modulus_1", "modulus_2"}}
    \cup {Variant("Ecc", [ecc |-> k]) : k \in {"point_1", "point_2"}}

object_type(self) ==
    CASE self.variant = "AsymDetail" -> TPM2_ALG_NULL
      [] self.variant = "EccDetail" -> TPM2_ALG_ECC
      [] self.variant = "RsaDetail" -> TPM2_ALG_RSA
      [] self.variant = "SymDetail" -> TPM2_ALG_SYMCIPHER
      [] self.variant = "KeyedHashDetail" -> TPM2_ALG_KEYEDHASH

----------------------------------------------------------------------------
(* Tpm2BPublicBuilder                                                      *)

\* the object types a caller passes to with_type
ObjectTypes ==
    {TPM2_ALG_RSA, TPM2_ALG_ECC, TPM2_ALG_KEYEDHASH, TPM2_ALG_SYMCIPHER,
     TPM2_ALG_NULL}

NameAlgs == {TPM2_ALG_NULL, TPM2_ALG_SHA256}

ObjectAttributeWords == {{}, new_fixed_parent_key, new_fixed_signing_key}

Tpm2BPublicBuilder_new ==
    [type_ |-> None,
     name_alg |-> TPM2_ALG_NULL,
     object_attributes |-> {},
     auth_policy |-> Default_TPM2B_DIGEST,
     parameters |-> None,
     unique |-> None]

with_type(self, type_) == [self EXCEPT !.type_ = Some(type_)]

with_name_alg(self, name_alg) == [self EXCEPT !.name_alg = name_alg]

with_object_attributes(self, obj_attr) == [self EXCEPT !.object_attributes = obj_attr]

with_auth_policy(self, size, buffer) ==
    [self EXCEPT !.auth_policy = [size |-> size, buffer |-> buffer]]

with_parms(self, parameters) == [self EXCEPT !.parameters = Some(parameters)]

with_unique(self, unique) == [self EXCEPT !.unique = Some(unique)]

\* std::mem::size_of::<TPMT_PUBLIC>(), a constant of the target
size_of_TPMT_PUBLIC == "size_of::<TPMT_PUBLIC>()"

\* the TPM2B_PUBLIC assembled once parameters and unique are chosen
TPM2B_PUBLIC(self, parameters, unique) ==
    [size |-> size_of_TPMT_PUBLIC,
     publicArea |-> [type_ |-> unwrap(self.type_),
                     nameAlg |-> self.name_alg,
                     objectAttributes |-> self.object_attributes,
                     authPolicy |-> self.auth_policy,
                     parameters |-> parameters,
                     unique |-> unique]]

\* the arm looking at the unique value before the parameter block
Tpm2BPublicBuilder_build_arm_unique_first(self, parms_variant, parms_member, id_variant, id_member) ==
    IF is_some(self.unique) /\ unwrap(self.unique).variant # id_variant
    THEN Err("InconsistentParams")
    ELSE IF is_none(self.parameters)
    THEN Err("ParamsMissing")
    ELSE IF unwrap(self.parameters).variant # parms_variant
    THEN Err("InconsistentParams")
    ELSE Ok(TPM2B_PUBLIC(self,
                [member |-> parms_member, value |-> unwrap(self.parameters).value],
                IF is_some(self.unique)
                THEN [member |-> id_member, value |-> unwrap(self.unique).value]
                ELSE [member |-> "default", value |-> [zeroes |-> TRUE]]))

\* the arm writing whatever unique value it was given
Tpm2BPublicBuilder_build_arm_any_unique(self, parms_variant, parms_member, id_variant, id_member) ==
    IF is_none(self.parameters)
    THEN Err("ParamsMissing")
    ELSE IF unwrap(self.parameters).variant # parms_variant
    THEN Err("InconsistentParams")
    ELSE Ok(TPM2B_PUBLIC(self,
                [member |-> parms_member, value |-> unwrap(self.parameters).value],
                IF is_some(self.unique)
                THEN [member |-> id_member, value |-> unwrap(self.unique).value]
                ELSE [member |-> "default", value |-> [zeroes |-> TRUE]]))

\* one arm of the match in build(): parms_variant/id_variant are the enum
\* variants the arm accepts, parms_member/id_member the union members written
Tpm2BPublicBuilder_build_arm(self, parms_variant, parms_member, id_variant, id_member) ==
    IF is_none(self.parameters)
    THEN Err("ParamsMissing")
    ELSE IF unwrap(self.parameters).variant # parms_variant
    THEN Err("InconsistentParams")
    ELSE IF is_some(self.unique) /\ unwrap(self.unique).variant # id_variant
    THEN Err("InconsistentParams")
    ELSE Ok(TPM2B_PUBLIC(self,
                [member |-> parms_member, value |-> unwrap(self.parameters).value],
                IF is_some(self.unique)
                THEN [member |-> id_member, value |-> unwrap(self.unique).value]
                ELSE [member |-> "default", value |-> [zeroes |-> TRUE]]))

\* build() taking every object type other than ECC for RSA
Tpm2BPublicBuilder_build_default_rsa(self) ==
    IF self.type_ = Some(TPM2_ALG_ECC)
    THEN Tpm2BPublicBuilder_build_arm(self, "EccDetail", "eccDetail", "Ecc", "ecc")
    ELSE IF is_some(self.type_)
    THEN Tpm2BPublicBuilder_build_arm(self, "RsaDetail", "rsaDetail", "Rsa", "rsa")
    ELSE Err("UnsupportedParam")

Tpm2BPublicBuilder_build(self) ==
    IF self.type_ = Some(TPM2_ALG_RSA)
    THEN Tpm2BPublicBuilder_build_arm(self, "RsaDetail", "rsaDetail", "Rsa", "rsa")
    ELSE IF self.type_ = Some(TPM2_ALG_ECC)
    THEN Tpm2BPublicBuilder_build_arm(self, "EccDetail", "eccDetail", "Ecc", "ecc")
    ELSE Err("UnsupportedParam")

----------------------------------------------------------------------------
(* create_*_public helpers                                                 *)

create_restricted_decryption_rsa_public(symmetric, key_bits, pub_exponent) ==
    LET rsa_parms == TpmsRsaParmsBuilder_build(
                         TpmsRsaParmsBuilder_new_restricted_decryption_key(
                             Cipher_into(symmetric), key_bits, pub_exponent))
        object_attributes ==
            set_restricted(set_sign_encrypt(set_decrypt(set_user_with_auth(
                set_sensitive_data_origin(set_fixed_parent(set_fixed_tpm(
                    {}, TRUE), TRUE), TRUE), TRUE), TRUE), FALSE), TRUE)
    IN IF rsa_parms.kind # "Ok"
       THEN rsa_parms
       ELSE Tpm2BPublicBuilder_build(
                with_parms(with_object_attributes(with_name_alg(with_type(
                    Tpm2BPublicBuilder_new, TPM2_ALG_RSA), TPM2_ALG_SHA256),
                    object_attributes),
                    Variant("RsaDetail", unwrap(rsa_parms.val))))

create_unrestricted_signing_rsa_public(scheme, key_bits, pub_exponent) ==
    LET rsa_parms == TpmsRsaParmsBuilder_build(
                         TpmsRsaParmsBuilder_new_unrestricted_signing_key(
                             scheme, key_bits, pub_exponent))
        object_attributes ==
            set_restricted(set_sign_encrypt(set_decrypt(set_user_with_auth(
                set_sensitive_data_origin(set_fixed_parent(set_fixed_tpm(
                    {}, TRUE), TRUE), TRUE), TRUE), FALSE), TRUE), FALSE)
    IN IF rsa_parms.kind # "Ok"
       THEN rsa_parms
       ELSE Tpm2BPublicBuilder_build(
                with_parms(with_object_attributes(with_name_alg(with_type(
                    Tpm2BPublicBuilder_new, TPM2_ALG_RSA), TPM2_ALG_SHA256),
                    object_attributes),
                    Variant("RsaDetail", unwrap(rsa_parms.val))))

create_unrestricted_signing_ecc_public(scheme, curve) ==
    LET ecc_parms == TpmsEccParmsBuilder_build(
                         TpmsEccParmsBuilder_new_unrestricted_signing_key(
                             scheme, curve))
        object_attributes ==
            set_restricted(set_sign_encrypt(set_decrypt(set_user_with_auth(
                set_sensitive_data_origin(set_fixed_parent(set_fixed_tpm(
                    {}, TRUE), TRUE), TRUE), TRUE), FALSE), TRUE), FALSE)
    IN IF ecc_parms.kind # "Ok"
       THEN ecc_parms
       ELSE Tpm2BPublicBuilder_build(
                with_parms(with_object_attributes(with_name_alg(with_type(
                    Tpm2BPublicBuilder_new, TPM2_ALG_ECC), TPM2_ALG_SHA256),
                    object_attributes),
                    Variant("EccDetail", unwrap(ecc_parms.val))))

----------------------------------------------------------------------------
(* Byte vectors and fixed-capacity buffers                                 *)

\* byte vectors are drawn with the lengths 0..MaxShortLen and, for a buffer
\* of capacity cap, with cap - 1, cap and cap + 1
MaxShortLen == 2

\* the bytes of a vector are (i * seed) % 256 for a seed in 0..MaxSeed
MaxSeed == 1

Bytes(len, seed) == [i \in 1..len |-> (i * seed) % 256]

Lengths(cap) == (0..MaxShortLen) \cup {cap - 1, cap, cap + 1}

ByteVecs(cap) == {Bytes(len, seed) : len \in Lengths(cap), seed \in 0..MaxSeed}

\* the contents a fixed buffer of capacity cap is drawn with
Buffers(cap) == {Bytes(cap, seed) : seed \in 0..MaxSeed}

\* the u16 size words a raw structure is drawn with
Sizes(cap) == Lengths(cap) \cup {65535}

\* let mut buffer = [0_u8; cap]; buffer[..len].clone_from_slice(&vec[..len])
zero_padded(vec, cap) ==
    LET len == Len(vec)
    IN [i \in 1..cap |-> IF i <= len THEN vec[i] ELSE 0]

\* Vec::truncate(len): no effect when len is not below the vector's length
truncate(vec, len) == IF len < Len(vec) THEN SubSeq(vec, 1, len) ELSE vec

----------------------------------------------------------------------------
(* AsymSchemeUnion classification                                          *)

is_signing(self) ==
    CASE self.tag \in {"ECDH", "ECMQV", "RSAOAEP", "RSAES"} -> FALSE
      [] self.tag \in {"RSASSA", "RSAPSS", "ECDSA", "ECDAA", "SM2",
                       "ECSchnorr", "AnySig"} -> TRUE

\* is_decryption with RSAES among the signing schemes
is_decryption_rsaes_signing(self) ==
    CASE self.tag \in {"ECDH", "ECMQV", "RSAOAEP"} -> TRUE
      [] self.tag \in {"RSASSA", "RSAPSS", "ECDSA", "ECDAA", "SM2",
                       "ECSchnorr", "AnySig", "RSAES"} -> FALSE

is_decryption(self) ==
    CASE self.tag \in {"ECDH", "ECMQV", "RSAOAEP", "RSAES"} -> TRUE
      [] self.tag \in {"RSASSA", "RSAPSS", "ECDSA", "ECDAA", "SM2",
                       "ECSchnorr", "AnySig"} -> FALSE

is_rsa(self) ==
    CASE self.tag \in {"RSASSA", "RSAOAEP", "RSAPSS", "AnySig", "RSAES"} -> TRUE
      [] self.tag \in {"ECDH", "ECMQV", "ECDSA", "ECDAA", "SM2", "ECSchnorr"} -> FALSE

is_ecc(self) ==
    CASE self.tag \in {"RSASSA", "RSAOAEP", "RSAPSS", "AnySig", "RSAES"} -> FALSE
      [] self.tag \in {"ECDH", "ECMQV", "ECDSA", "ECDAA", "SM2", "ECSchnorr"} -> TRUE

----------------------------------------------------------------------------
(* Signature and TPMT_SIGNATURE                                            *)

\* capacity of TPM2B_PUBLIC_KEY_RSA.buffer
RsaSignatureCapacity == 512

\* capacity of TPM2B_ECC_PARAMETER.buffer
EccParameterCapacity == 128

RsaSignature(signature) == Variant("RsaSignature", [signature |-> signature])

EcdsaSignature(r, s) == Variant("EcdsaSignature", [r |-> r, s |-> s])

SignatureData ==
    {RsaSignature(v) : v \in ByteVecs(RsaSignatureCapacity)}
    \cup {EcdsaSignature(r, s) : r \in ByteVecs(EccParameterCapacity),
                                 s \in ByteVecs(EccParameterCapacity)}

Signature == [scheme : AsymSchemeUnion, signature : SignatureData]

\* TPM2_ALG_ID::try_into() -> HashingAlgorithm
HashingAlgorithm_try_from(id) ==
    IF \E h \in HashingAlgorithm : HashingAlgorithm_into(h) = id
    THEN Ok(CHOOSE h \in HashingAlgorithm : HashingAlgorithm_into(h) = id)
    ELSE Err("InvalidParam")

\* the members rsassa and rsapss of TPMU_SIGNATURE, both a TPMS_SIGNATURE_RSA
TPMS_SIGNATURE_RSA(hash, size, buffer) ==
    [layout |-> "TPMS_SIGNATURE_RSA",
     hash |-> hash,
     sig |-> [size |-> size, buffer |-> buffer]]

\* the member ecdsa of TPMU_SIGNATURE
TPMS_SIGNATURE_ECDSA(hash, r_size, r_buffer, s_size, s_buffer) ==
    [layout |-> "TPMS_SIGNATURE_ECDSA",
     hash |-> hash,
     signatureR |-> [size |-> r_size, buffer |-> r_buffer],
     signatureS |-> [size |-> s_size, buffer |-> s_buffer]]

\* the RSA arms with the bound test refusing a payload that fills the buffer
TPMT_SIGNATURE_try_from_rsa_exclusive_bound(sig, sigAlg) ==
    IF sig.signature.variant = "EcdsaSignature"
    THEN Err("InconsistentParams")
    ELSE LET signature == sig.signature.value.signature
             len == Len(signature)
         IN IF len >= 512
            THEN Err("WrongParamSize")
            ELSE Ok([sigAlg |-> sigAlg,
                     signature |-> TPMS_SIGNATURE_RSA(
                         HashingAlgorithm_into(unwrap(sig.scheme.hash)),
                         len,
                         zero_padded(signature, RsaSignatureCapacity))])

\* TryFrom<Signature> for TPMT_SIGNATURE, the arms RSASSA and RSAPSS
TPMT_SIGNATURE_try_from_rsa(sig, sigAlg) ==
    IF sig.signature.variant = "EcdsaSignature"
    THEN Err("InconsistentParams")
    ELSE LET signature == sig.signature.value.signature
             len == Len(signature)
         IN IF len > 512
            THEN Err("WrongParamSize")
            ELSE Ok([sigAlg |-> sigAlg,
                     signature |-> TPMS_SIGNATURE_RSA(
                         HashingAlgorithm_into(unwrap(sig.scheme.hash)),
                         len,
                         zero_padded(signature, RsaSignatureCapacity))])

\* the ECDSA arm reporting a single-sequence payload as a size error
TPMT_SIGNATURE_try_from_ecdsa_shape_as_size(sig) ==
    IF sig.signature.variant = "RsaSignature"
    THEN Err("WrongParamSize")
    ELSE LET r == sig.signature.value.r
             s == sig.signature.value.s
         IN IF Len(r) > 128
            THEN Err("WrongParamSize")
            ELSE IF Len(s) > 128
            THEN Err("WrongParamSize")
            ELSE Ok([sigAlg |-> TPM2_ALG_ECDSA,
                     signature |-> TPMS_SIGNATURE_ECDSA(
                         HashingAlgorithm_into(unwrap(sig.scheme.hash)),
                         Len(r), zero_padded(r, EccParameterCapacity),
                         Len(s), zero_padded(s, EccParameterCapacity))])

\* TryFrom<Signature> for TPMT_SIGNATURE, the arm ECDSA
TPMT_SIGNATURE_try_from_ecdsa(sig) ==
    IF sig.signature.variant = "RsaSignature"
    THEN Err("InconsistentParams")
    ELSE LET r == sig.signature.value.r
             s == sig.signature.value.s
         IN IF Len(r) > 128
            THEN Err("WrongParamSize")
            ELSE IF Len(s) > 128
            THEN Err("WrongParamSize")
            ELSE Ok([sigAlg |-> TPM2_ALG_ECDSA,
                     signature |-> TPMS_SIGNATURE_ECDSA(
                         HashingAlgorithm_into(unwrap(sig.scheme.hash)),
                         Len(r), zero_padded(r, EccParameterCapacity),
                         Len(s), zero_padded(s, EccParameterCapacity))])

\* the conversion without the test for decryption schemes
TPMT_SIGNATURE_try_from_no_decryption_test(sig) ==
    CASE sig.scheme.tag = "RSASSA" ->
             TPMT_SIGNATURE_try_from_rsa(sig, TPM2_ALG_RSASSA)
      [] sig.scheme.tag = "RSAPSS" ->
             TPMT_SIGNATURE_try_from_rsa(sig, TPM2_ALG_RSAPSS)
      [] sig.scheme.tag = "ECDSA" ->
             TPMT_SIGNATURE_try_from_ecdsa(sig)
      [] OTHER -> Err("UnsupportedParam")

\* TryFrom<Signature> for TPMT_SIGNATURE
TPMT_SIGNATURE_try_from(sig) ==
    IF is_decryption(sig.scheme)
    THEN Err("InconsistentParams")
    ELSE CASE sig.scheme.tag = "RSASSA" ->
                  TPMT_SIGNATURE_try_from_rsa(sig, TPM2_ALG_RSASSA)
           [] sig.scheme.tag = "RSAPSS" ->
                  TPMT_SIGNATURE_try_from_rsa(sig, TPM2_ALG_RSAPSS)
           [] sig.scheme.tag = "ECDSA" ->
                  TPMT_SIGNATURE_try_from_ecdsa(sig)
           [] OTHER -> Err("UnsupportedParam")

\* the buffer returned whole, without truncate(buf_size)
truncated_buffer_whole(buf) ==
    IF buf.size > Len(buf.buffer)
    THEN Err("InconsistentParams")
    ELSE Ok(buf.buffer)

\* signature_buf.buffer.to_vec(), the size test and truncate(buf_size)
truncated_buffer(buf) ==
    IF buf.size > Len(buf.buffer)
    THEN Err("InconsistentParams")
    ELSE Ok(truncate(buf.buffer, buf.size))

\* Signature::try_from, the arms RSASSA and RSAPSS: both read the member
\* rsassa for the signature bytes
Signature_try_from_rsa(tss_signature, tag) ==
    LET hash_alg == HashingAlgorithm_try_from(tss_signature.signature.hash)
        signature == truncated_buffer(tss_signature.signature.sig)
    IN IF hash_alg.kind # "Ok" THEN hash_alg
       ELSE IF signature.kind # "Ok" THEN signature
       ELSE Ok([scheme |-> Scheme(tag, hash_alg.val, None),
                signature |-> RsaSignature(unwrap(signature.val))])

\* the ECDSA arm cutting s at the size declared for r
Signature_try_from_ecdsa_s_by_r_size(tss_signature) ==
    LET hash_alg == HashingAlgorithm_try_from(tss_signature.signature.hash)
        r == truncated_buffer(tss_signature.signature.signatureR)
        s == truncated_buffer([size |-> tss_signature.signature.signatureR.size,
                               buffer |-> tss_signature.signature.signatureS.buffer])
    IN IF hash_alg.kind # "Ok" THEN hash_alg
       ELSE IF r.kind # "Ok" THEN r
       ELSE IF s.kind # "Ok" THEN s
       ELSE Ok([scheme |-> Scheme("ECDSA", hash_alg.val, None),
                signature |-> EcdsaSignature(unwrap(r.val), unwrap(s.val))])

\* Signature::try_from, the arm ECDSA
Signature_try_from_ecdsa(tss_signature) ==
    LET hash_alg == HashingAlgorithm_try_from(tss_signature.signature.hash)
        r == truncated_buffer(tss_signature.signature.signatureR)
        s == truncated_buffer(tss_signature.signature.signatureS)
    IN IF hash_alg.kind # "Ok" THEN hash_alg
       ELSE IF r.kind # "Ok" THEN r
       ELSE IF s.kind # "Ok" THEN s
       ELSE Ok([scheme |-> Scheme("ECDSA", hash_alg.val, None),
                signature |-> EcdsaSignature(unwrap(r.val), unwrap(s.val))])

\* the parse with ECDAA left to the wildcard arm
Signature_try_from_ecdaa_unmatched(tss_signature) ==
    CASE tss_signature.sigAlg = TPM2_ALG_RSASSA ->
             Signature_try_from_rsa(tss_signature, "RSASSA")
      [] tss_signature.sigAlg = TPM2_ALG_RSAPSS ->
             Signature_try_from_rsa(tss_signature, "RSAPSS")
      [] tss_signature.sigAlg = TPM2_ALG_ECDSA ->
             Signature_try_from_ecdsa(tss_signature)
      [] tss_signature.sigAlg \in {TPM2_ALG_SM2, TPM2_ALG_ECSCHNORR} ->
             Err("UnsupportedParam")
      [] OTHER -> Err("InconsistentParams")

\* Signature::try_from(tss_signature: TPMT_SIGNATURE)
Signature_try_from(tss_signature) ==
    CASE tss_signature.sigAlg = TPM2_ALG_RSASSA ->
             Signature_try_from_rsa(tss_signature, "RSASSA")
      [] tss_signature.sigAlg = TPM2_ALG_RSAPSS ->
             Signature_try_from_rsa(tss_signature, "RSAPSS")
      [] tss_signature.sigAlg = TPM2_ALG_ECDSA ->
             Signature_try_from_ecdsa(tss_signature)
      [] tss_signature.sigAlg \in {TPM2_ALG_SM2, TPM2_ALG_ECSCHNORR, TPM2_ALG_ECDAA} ->
             Err("UnsupportedParam")
      [] OTHER -> Err("InconsistentParams")

\* the hash words a raw structure is drawn with: TPM2_ALG_RSA names no hash
RawHashIds == {TPM2_ALG_SHA1, TPM2_ALG_SHA256, TPM2_ALG_RSA}

RawRsaSignatures ==
    {TPMS_SIGNATURE_RSA(hash, size, buffer) :
        hash \in RawHashIds,
        size \in Sizes(RsaSignatureCapacity),
        buffer \in Buffers(RsaSignatureCapacity)}

RawEccParameters ==
    [size : Sizes(EccParameterCapacity), buffer : Buffers(EccParameterCapacity)]

RawEcdsaSignatures ==
    {TPMS_SIGNATURE_ECDSA(hash, r.size, r.buffer, s.size, s.buffer) :
        hash \in RawHashIds, r \in RawEccParameters, s \in RawEccParameters}

\* the algorithm words sigAlg is drawn with
SigAlgIds ==
    {TPM2_ALG_RSASSA, TPM2_ALG_RSAPSS, TPM2_ALG_ECDSA, TPM2_ALG_SM2,
     TPM2_ALG_ECSCHNORR, TPM2_ALG_ECDAA, TPM2_ALG_ECDH, TPM2_ALG_ECMQV,
     TPM2_ALG_RSAES, TPM2_ALG_OAEP, TPM2_ALG_NULL, TPM2_ALG_RSA,
     TPM2_ALG_SHA256}

\* the raw signatures handed to Signature::try_from: the union member the
\* tag selects is the one that was written (the constraint the function
\* documents); under any other tag the union is not read
TPMT_SIGNATURE ==
    {[sigAlg |-> a, signature |-> u] :
        a \in {TPM2_ALG_RSASSA, TPM2_ALG_RSAPSS}, u \in RawRsaSignatures}
    \cup {[sigAlg |-> TPM2_ALG_ECDSA, signature |-> u] : u \in RawEcdsaSignatures}
    \cup {[sigAlg |-> a, signature |-> u] :
            a \in SigAlgIds \ {TPM2_ALG_RSASSA, TPM2_ALG_RSAPSS, TPM2_ALG_ECDSA},
            u \in {TPMS_SIGNATURE_RSA(TPM2_ALG_SHA256, 1, Bytes(RsaSignatureCapacity, 1)),
                   TPMS_SIGNATURE_ECDSA(TPM2_ALG_SHA1,
                       65535, Bytes(EccParameterCapacity, 0),
                       1, Bytes(EccParameterCapacity, 1))}}

----------------------------------------------------------------------------
(* TpmsContext and TPMS_CONTEXT                                            *)

\* capacity of TPM2B_CONTEXT_DATA.buffer
ContextBlobCapacity == 5188

\* sequence numbers are drawn from 0..MaxSequence
MaxSequence == 1

\* saved handles and hierarchy handles are drawn from 0..MaxHandle
MaxHandle == 1

TpmsContext ==
    [sequence : 0..MaxSequence,
     saved_handle : 0..MaxHandle,
     hierarchy : 0..MaxHandle,
     context_blob : ByteVecs(ContextBlobCapacity)]

TPMS_CONTEXT ==
    [sequence : 0..MaxSequence,
     savedHandle : 0..MaxHandle,
     hierarchy : 0..MaxHandle,
     contextBlob : [size : Sizes(ContextBlobCapacity),
                    buffer : Buffers(ContextBlobCapacity)]]

\* u16::try_into() -> usize: every u16 is a usize
usize_try_from(size) == Ok(size)

\* the parse keeping the whole buffer, without truncate
TpmsContext_try_from_whole_buffer(tss2_context) ==
    LET len == usize_try_from(tss2_context.contextBlob.size)
    IN IF len.kind # "Ok"
       THEN Err("WrongParamSize")
       ELSE Ok([sequence |-> tss2_context.sequence,
                saved_handle |-> tss2_context.savedHandle,
                hierarchy |-> tss2_context.hierarchy,
                context_blob |-> tss2_context.contextBlob.buffer])

\* TryFrom<TPMS_CONTEXT> for TpmsContext
TpmsContext_try_from(tss2_context) ==
    LET len == usize_try_from(tss2_context.contextBlob.size)
    IN IF len.kind # "Ok"
       THEN Err("WrongParamSize")
       ELSE Ok([sequence |-> tss2_context.sequence,
                saved_handle |-> tss2_context.savedHandle,
                hierarchy |-> tss2_context.hierarchy,
                context_blob |-> truncate(tss2_context.contextBlob.buffer,
                                          unwrap(len.val))])

\* the conversion refusing a blob that fills the buffer
TPMS_CONTEXT_try_from_exclusive_bound(context) ==
    LET buffer_size == Len(context.context_blob)
    IN IF buffer_size >= 5188
       THEN Err("WrongParamSize")
       ELSE Ok([sequence |-> context.sequence,
                savedHandle |-> context.saved_handle,
                hierarchy |-> context.hierarchy,
                contextBlob |-> [size |-> buffer_size,
                                 buffer |-> zero_padded(context.context_blob,
                                                        ContextBlobCapacity)]])

\* TryFrom<TpmsContext> for TPMS_CONTEXT
TPMS_CONTEXT_try_from(context) ==
    LET buffer_size == Len(context.context_blob)
    IN IF buffer_size > 5188
       THEN Err("WrongParamSize")
       ELSE Ok([sequence |-> context.sequence,
                savedHandle |-> context.saved_handle,
                hierarchy |-> context.hierarchy,
                contextBlob |-> [size |-> buffer_size,
                                 buffer |-> zero_padded(context.context_blob,
                                                        ContextBlobCapacity)]])

----------------------------------------------------------------------------
(* PcrSelections and TPML_PCR_SELECTION                                    *)

\* length of the array TPML_PCR_SELECTION.pcrSelections
TPM2_NUM_PCR_BANKS == 16

\* a raw list is drawn with at most MaxEntries entries written by the caller
MaxEntries == 2

PcrSelectSize == {"OneByte", "TwoBytes", "ThreeBytes", "FourBytes"}

\* PcrSelectSize::from_u8
PcrSelectSize_from_u8(n) ==
    CASE n = 1 -> Some("OneByte")
      [] n = 2 -> Some("TwoBytes")
      [] n = 3 -> Some("ThreeBytes")
      [] n = 4 -> Some("FourBytes")
      [] OTHER -> None

Default_PcrSelectSize == "ThreeBytes"

\* Option::unwrap_or
unwrap_or(o, default) == IF is_some(o) THEN unwrap(o) ELSE default

u32_from_le_bytes(bytes) ==
    bytes[1] + bytes[2] * 256 + bytes[3] * 65536 + bytes[4] * 16777216

\* PcrSlot: Slot0 = 0x0000_0001 .. Slot23 = 0x0080_0000, named by bit position
PcrSlot == 0..23

RECURSIVE pow2(_)
pow2(n) == IF n = 0 THEN 1 ELSE 2 * pow2(n - 1)

\* BitFlags::<PcrSlot>::try_from(bits): the set of slots whose bit is set,
\* an error when a bit that is no slot's is set
BitFlags_try_from(bits) ==
    IF bits >= pow2(24)
    THEN Err("InvalidBits")
    ELSE Ok({slot \in PcrSlot : (bits \div pow2(slot)) % 2 = 1})

\* the outcome of a call that panics
Panic == [kind |-> "panic", val |-> None]

\* the insert or update replacing the slots stored for the algorithm
items_merge_overwrite(items, parsed_hash_algorithm, parsed_pcr_slots) ==
    [h \in DOMAIN items \cup {parsed_hash_algorithm} |->
        IF h # parsed_hash_algorithm THEN items[h] ELSE parsed_pcr_slots]

\* ret.items after the insert or update for parsed_hash_algorithm
items_merge(items, parsed_hash_algorithm, parsed_pcr_slots) ==
    [h \in DOMAIN items \cup {parsed_hash_algorithm} |->
        IF h # parsed_hash_algorithm THEN items[h]
        ELSE IF h \in DOMAIN items THEN items[h] \cup parsed_pcr_slots
        ELSE parsed_pcr_slots]

\* Default for PcrSelections.items: the empty map
Default_items == [h \in {} |-> {}]

\* the loop of PcrSelections::try_from from selection_index on; indexing
\* pcrSelections past its length panics
RECURSIVE PcrSelections_try_from_loop(_, _, _, _)
PcrSelections_try_from_loop(tpml_pcr_selection, selection_index, items, size_of_select) ==
    IF selection_index >= tpml_pcr_selection.count
    THEN Ok([size_of_select |-> unwrap_or(size_of_select, Default_PcrSelectSize),
             items |-> items])
    ELSE IF selection_index >= Len(tpml_pcr_selection.pcrSelections)
    THEN Panic
    ELSE LET selection == tpml_pcr_selection.pcrSelections[selection_index + 1]
             parsed_pcr_slots ==
                 BitFlags_try_from(u32_from_le_bytes(selection.pcrSelect))
             parsed_size_of_select == PcrSelectSize_from_u8(selection.sizeofSelect)
             parsed_hash_algorithm == HashingAlgorithm_try_from(selection.hash)
         IN IF parsed_pcr_slots.kind # "Ok"
            THEN Err("UnsupportedParam")
            ELSE IF is_none(parsed_size_of_select)
            THEN Err("InvalidParam")
            ELSE IF unwrap(parsed_size_of_select) #
                        unwrap_or(size_of_select, unwrap(parsed_size_of_select))
            THEN Err("UnsupportedParam")
            ELSE IF parsed_hash_algorithm.kind # "Ok"
            THEN Err("InvalidParam")
            ELSE PcrSelections_try_from_loop(
                     tpml_pcr_selection, selection_index + 1,
                     items_merge(items, unwrap(parsed_hash_algorithm.val),
                                 unwrap(parsed_pcr_slots.val)),
                     parsed_size_of_select)

\* TryFrom<TPML_PCR_SELECTION> for PcrSelections
PcrSelections_try_from(tpml_pcr_selection) ==
    PcrSelections_try_from_loop(tpml_pcr_selection, 0, Default_items, None)

\* the entries a raw list is drawn with: a recognised or unrecognised hash
\* word, a sizeofSelect of 3, 4 or 5, and a bit mask of slot 0, of slot 23
\* or of bit 24
TPMS_PCR_SELECTION ==
    [hash : {TPM2_ALG_SHA1, TPM2_ALG_SHA256, TPM2_ALG_RSA},
     sizeofSelect : {3, 4, 5},
     pcrSelect : {<<1, 0, 0, 0>>, <<0, 0, 128, 0>>, <<0, 0, 0, 1>>}]

\* Default for TPMS_PCR_SELECTION: all zeroes
Default_TPMS_PCR_SELECTION ==
    [hash |-> TPM2_ALG_ERROR, sizeofSelect |-> 0, pcrSelect |-> <<0, 0, 0, 0>>]

\* the entries the array holds past the ones the caller wrote
FillEntries ==
    {Default_TPMS_PCR_SELECTION,
     [hash |-> TPM2_ALG_SHA256, sizeofSelect |-> 3, pcrSelect |-> <<2, 0, 0, 0>>]}

\* the values count is drawn with: a u32 the caller sets, here up to the
\* number of entries written, the array's length, or one more
Counts == (0..MaxEntries) \cup {TPM2_NUM_PCR_BANKS, TPM2_NUM_PCR_BANKS + 1}

\* a raw list whose first MaxEntries entries were written, the others
\* holding fill
TPML_PCR_SELECTION(count, entries, fill) ==
    [count |-> count,
     pcrSelections |-> [i \in 1..TPM2_NUM_PCR_BANKS |->
                           IF i <= MaxEntries THEN entries[i] ELSE fill]]

----------------------------------------------------------------------------
(* Hierarchy                                                               *)

TPM2_RH_OWNER == 1073741825

TPM2_RH_NULL == 1073741831

TPM2_RH_ENDORSEMENT == 1073741835

TPM2_RH_PLATFORM == 1073741836

ESYS_TR_RH_OWNER == 257

ESYS_TR_RH_NULL == 263

ESYS_TR_RH_ENDORSEMENT == 267

ESYS_TR_RH_PLATFORM == 268

Hierarchy == {"Null", "Owner", "Platform", "Endorsement"}

\* Hierarchy::esys_rh
esys_rh(self) ==
    CASE self = "Null" -> ESYS_TR_RH_NULL
      [] self = "Owner" -> ESYS_TR_RH_OWNER
      [] self = "Platform" -> ESYS_TR_RH_PLATFORM
      [] self = "Endorsement" -> ESYS_TR_RH_ENDORSEMENT

\* Hierarchy::rh
rh(self) ==
    CASE self = "Null" -> TPM2_RH_NULL
      [] self = "Owner" -> TPM2_RH_OWNER
      [] self = "Platform" -> TPM2_RH_PLATFORM
      [] self = "Endorsement" -> TPM2_RH_ENDORSEMENT

\* try_from with the ESYS handles of Platform and Endorsement exchanged
Hierarchy_try_from_esys_exchanged(handle) ==
    CASE handle \in {TPM2_RH_NULL, ESYS_TR_RH_NULL} -> Ok("Null")
      [] handle \in {TPM2_RH_OWNER, ESYS_TR_RH_OWNER} -> Ok("Owner")
      [] handle \in {TPM2_RH_PLATFORM, ESYS_TR_RH_ENDORSEMENT} -> Ok("Platform")
      [] handle \in {TPM2_RH_ENDORSEMENT, ESYS_TR_RH_PLATFORM} -> Ok("Endorsement")
      [] OTHER -> Err("InconsistentParams")

\* TryFrom<TPM2_HANDLE> for Hierarchy
Hierarchy_try_from(handle) ==
    CASE handle \in {TPM2_RH_NULL, ESYS_TR_RH_NULL} -> Ok("Null")
      [] handle \in {TPM2_RH_OWNER, ESYS_TR_RH_OWNER} -> Ok("Owner")
      [] handle \in {TPM2_RH_PLATFORM, ESYS_TR_RH_PLATFORM} -> Ok("Platform")
      [] handle \in {TPM2_RH_ENDORSEMENT, ESYS_TR_RH_ENDORSEMENT} -> Ok("Endorsement")
      [] OTHER -> Err("InconsistentParams")

\* the handles of the four hierarchies in both handle spaces
HierarchyHandles == {rh(h) : h \in Hierarchy} \cup {esys_rh(h) : h \in Hierarchy}

\* the TPM2_HANDLE words try_from is called with: the hierarchy handles,
\* their neighbours and the words 0..MaxHandle
TPM2_HANDLE ==
    HierarchyHandles
    \cup {handle + d : handle \in HierarchyHandles, d \in {-1, 1}}
    \cup (0..MaxHandle)

----------------------------------------------------------------------------
(* TpmaSession and TpmaSessionBuilder                                      *)

\* the TPMA_SESSION words passed to the builder are drawn from 0..MaxSessionWord
MaxSessionWord == 3

\* a builder receives at most MaxSessionCalls calls of with_flag and with_mask
MaxSessionCalls == 3

TPMA_SESSION == 0..MaxSessionWord

\* the operator | on two words
RECURSIVE bit_or(_, _)
bit_or(a, b) ==
    IF a = 0 THEN b
    ELSE IF b = 0 THEN a
    ELSE (IF a % 2 = 1 \/ b % 2 = 1 THEN 1 ELSE 0) + 2 * bit_or(a \div 2, b \div 2)

TpmaSessionBuilder_new == [flags |-> 0, mask |-> None]

TpmaSessionBuilder_with_flag(self, flag) ==
    [self EXCEPT !.flags = bit_or(self.flags, flag)]

\* with_mask replacing the mask set before
TpmaSessionBuilder_with_mask_overwrite(self, mask) ==
    [self EXCEPT !.mask = Some(mask)]

TpmaSessionBuilder_with_mask(self, mask) ==
    [self EXCEPT !.mask = Some(bit_or(unwrap_or(self.mask, 0), mask))]

TpmaSessionBuilder_build(self) ==
    [flags |-> self.flags, mask |-> unwrap_or(self.mask, self.flags)]

TpmaSession_clone_with_new_mask(self, new_mask) ==
    [flags |-> self.flags, mask |-> new_mask]

----------------------------------------------------------------------------
(* PcrSelectionsBuilder and From<PcrSelections> for TPML_PCR_SELECTION     *)

\* a builder receives at most MaxSelections calls of with_selection
MaxSelections == 2

\* the slices of slots with_selection is called with
SlotLists == UNION {[1..n -> {0, 8, 23}] : n \in 0..2}

PcrSelectionsBuilder_new == [size_of_select |-> None, items |-> Default_items]

PcrSelectionsBuilder_with_size_of_select(self, size_of_select) ==
    [self EXCEPT !.size_of_select = Some(size_of_select)]

\* pcr_slots.iter().cloned().collect() into BitFlags<PcrSlot>
slots_collect(pcr_slots) == {pcr_slots[i] : i \in 1..Len(pcr_slots)}

PcrSelectionsBuilder_with_selection(self, hash_algorithm, pcr_slots) ==
    [self EXCEPT !.items = items_merge(self.items, hash_algorithm,
                                       slots_collect(pcr_slots))]

PcrSelectionsBuilder_build(self) ==
    [size_of_select |-> unwrap_or(self.size_of_select, Default_PcrSelectSize),
     items |-> self.items]

\* PcrSelectSize::to_u8
PcrSelectSize_to_u8(size) ==
    CASE size = "OneByte" -> 1
      [] size = "TwoBytes" -> 2
      [] size = "ThreeBytes" -> 3
      [] size = "FourBytes" -> 4

\* the bits of the slots below slot n
RECURSIVE bits_below(_, _)
bits_below(slots, n) ==
    IF n = 0 THEN 0
    ELSE bits_below(slots, n - 1) + (IF (n - 1) \in slots THEN pow2(n - 1) ELSE 0)

\* BitFlags::bits
BitFlags_bits(slots) == bits_below(slots, 24)

\* u32::to_be_bytes in the place of to_le_bytes
u32_to_be_bytes(n) ==
    <<(n \div 16777216) % 256, (n \div 65536) % 256, (n \div 256) % 256, n % 256>>

u32_to_le_bytes(n) ==
    <<n % 256, (n \div 256) % 256, (n \div 65536) % 256, (n \div 16777216) % 256>>

\* the orders in which a HashMap with these items may be iterated
IterationOrders(items) ==
    {order \in [1..Cardinality(DOMAIN items) -> DOMAIN items] :
        \A i, j \in DOMAIN order : order[i] = order[j] => i = j}

\* the conversion writing 3 as every sizeofSelect
TPML_PCR_SELECTION_from_three_bytes(pcr_selections, order) ==
    [count |-> Len(order),
     pcrSelections |->
        [i \in 1..TPM2_NUM_PCR_BANKS |->
            IF i <= Len(order)
            THEN [hash |-> HashingAlgorithm_into(order[i]),
                  sizeofSelect |-> 3,
                  pcrSelect |-> u32_to_le_bytes(
                                    BitFlags_bits(pcr_selections.items[order[i]]))]
            ELSE Default_TPMS_PCR_SELECTION]]

\* From<PcrSelections> for TPML_PCR_SELECTION, the map iterated in order
TPML_PCR_SELECTION_from(pcr_selections, order) ==
    [count |-> Len(order),
     pcrSelections |->
        [i \in 1..TPM2_NUM_PCR_BANKS |->
            IF i <= Len(order)
            THEN [hash |-> HashingAlgorithm_into(order[i]),
                  sizeofSelect |-> PcrSelectSize_to_u8(pcr_selections.size_of_select),
                  pcrSelect |-> u32_to_le_bytes(
                                    BitFlags_bits(pcr_selections.items[order[i]]))]
            ELSE Default_TPMS_PCR_SELECTION]]

----------------------------------------------------------------------------
(* The caller: one call chain per behaviour.  A builder is constructed,    *)
(* then build() is applied to it.  call records the last call made, with   *)
(* the value it was applied to and the value it returned.                  *)

NoBuilder == [type |-> "none"]

\* the builders of a finished chain have been moved into build()
Consumed == [type |-> "consumed"]

Init ==
    /\ builder = NoBuilder
    /\ call = [op |-> "none"]

\* TpmsRsaParmsBuilder::new_restricted_decryption_key(symmetric, key_bits, exponent)
RsaNewRestrictedDecryptionKey ==
    /\ builder = NoBuilder
    /\ \E symmetric \in SymDefObjects, key_bits \in RSA_KEY_SIZES, exponent \in Exponents :
        builder' = [type |-> "rsa",
                    b |-> TpmsRsaParmsBuilder_new_restricted_decryption_key(
                              symmetric, key_bits, exponent)]
    /\ call' = [op |-> "TpmsRsaParmsBuilder::new_restricted_decryption_key"]

\* TpmsRsaParmsBuilder::new_unrestricted_signing_key(scheme, key_bits, exponent)
RsaNewUnrestrictedSigningKey ==
    /\ builder = NoBuilder
    /\ \E scheme \in AsymSchemeUnion, key_bits \in RSA_KEY_SIZES, exponent \in Exponents :
        builder' = [type |-> "rsa",
                    b |-> TpmsRsaParmsBuilder_new_unrestricted_signing_key(
                              scheme, key_bits, exponent)]
    /\ call' = [op |-> "TpmsRsaParmsBuilder::new_unrestricted_signing_key"]

\* the fields are pub: a caller may write any struct literal
RsaStructLiteral ==
    /\ builder = NoBuilder
    /\ \E b \in TpmsRsaParmsBuilder : builder' = [type |-> "rsa", b |-> b]
    /\ call' = [op |-> "TpmsRsaParmsBuilder { .. }"]

\* TpmsRsaParmsBuilder::build(self); the builder is Copy and stays usable
RsaBuild ==
    /\ builder.type = "rsa"
    /\ call' = [op |-> "TpmsRsaParmsBuilder::build",
                self |-> builder.b,
                out |-> TpmsRsaParmsBuilder_build(builder.b)]
    /\ UNCHANGED builder

\* TpmsEccParmsBuilder::new_restricted_decryption_key(symmetric, curve)
EccNewRestrictedDecryptionKey ==
    /\ builder = NoBuilder
    /\ \E symmetric \in Cipher, curve \in EllipticCurve :
        builder' = [type |-> "ecc",
                    b |-> TpmsEccParmsBuilder_new_restricted_decryption_key(
                              symmetric, curve)]
    /\ call' = [op |-> "TpmsEccParmsBuilder::new_restricted_decryption_key"]

\* TpmsEccParmsBuilder::new_unrestricted_signing_key(scheme, curve)
EccNewUnrestrictedSigningKey ==
    /\ builder = NoBuilder
    /\ \E scheme \in AsymSchemeUnion, curve \in EllipticCurve :
        builder' = [type |-> "ecc",
                    b |-> TpmsEccParmsBuilder_new_unrestricted_signing_key(
                              scheme, curve)]
    /\ call' = [op |-> "TpmsEccParmsBuilder::new_unrestricted_signing_key"]

\* the fields are pub: a caller may write any struct literal
EccStructLiteral ==
    /\ builder = NoBuilder
    /\ \E b \in TpmsEccParmsBuilder : builder' = [type |-> "ecc", b |-> b]
    /\ call' = [op |-> "TpmsEccParmsBuilder { .. }"]

\* TpmsEccParmsBuilder::build(self); the builder is Copy and stays usable
EccBuild ==
    /\ builder.type = "ecc"
    /\ call' = [op |-> "TpmsEccParmsBuilder::build",
                self |-> builder.b,
                out |-> TpmsEccParmsBuilder_build(builder.b)]
    /\ UNCHANGED builder

\* Tpm2BPublicBuilder::new()
PubNew ==
    /\ builder = NoBuilder
    /\ builder' = [type |-> "pub", b |-> Tpm2BPublicBuilder_new]
    /\ call' = [op |-> "Tpm2BPublicBuilder::new"]

\* Tpm2BPublicBuilder::with_type(self, type_)
PubWithType ==
    /\ builder.type = "pub"
    /\ \E type_ \in ObjectTypes :
        builder' = [builder EXCEPT !.b = with_type(@, type_)]
    /\ call' = [op |-> "Tpm2BPublicBuilder::with_*"]

\* Tpm2BPublicBuilder::with_name_alg(self, name_alg)
PubWithNameAlg ==
    /\ builder.type = "pub"
    /\ \E name_alg \in NameAlgs :
        builder' = [builder EXCEPT !.b = with_name_alg(@, name_alg)]
    /\ call' = [op |-> "Tpm2BPublicBuilder::with_*"]

\* Tpm2BPublicBuilder::with_object_attributes(self, obj_attr)
PubWithObjectAttributes ==
    /\ builder.type = "pub"
    /\ \E obj_attr \in ObjectAttributeWords :
        builder' = [builder EXCEPT !.b = with_object_attributes(@, obj_attr)]
    /\ call' = [op |-> "Tpm2BPublicBuilder::with_*"]

\* Tpm2BPublicBuilder::with_auth_policy(self, size, buffer)
PubWithAuthPolicy ==
    /\ builder.type = "pub"
    /\ \E d \in TPM2B_DIGEST :
        builder' = [builder EXCEPT !.b = with_auth_policy(@, d.size, d.buffer)]
    /\ call' = [op |-> "Tpm2BPublicBuilder::with_*"]

\* Tpm2BPublicBuilder::with_parms(self, parameters)
PubWithParms ==
    /\ builder.type = "pub"
    /\ \E parameters \in PublicParmsUnion :
        builder' = [builder EXCEPT !.b = with_parms(@, parameters)]
    /\ call' = [op |-> "Tpm2BPublicBuilder::with_*"]

\* Tpm2BPublicBuilder::with_unique(self, unique)
PubWithUnique ==
    /\ builder.type = "pub"
    /\ \E unique \in PublicIdUnion :
        builder' = [builder EXCEPT !.b = with_unique(@, unique)]
    /\ call' = [op |-> "Tpm2BPublicBuilder::with_*"]

\* Tpm2BPublicBuilder::build(self): the builder is moved into the call
PubBuild ==
    /\ builder.type = "pub"
    /\ call' = [op |-> "Tpm2BPublicBuilder::build",
                self |-> builder.b,
                out |-> Tpm2BPublicBuilder_build(builder.b)]
    /\ builder' = Consumed

\* create_restricted_decryption_rsa_public(symmetric, key_bits, pub_exponent)
CreateRestrictedDecryptionRsaPublic ==
    /\ builder = NoBuilder
    /\ \E symmetric \in Cipher, key_bits \in RSA_KEY_SIZES, pub_exponent \in Exponents :
        call' = [op |-> "create_restricted_decryption_rsa_public",
                 symmetric |-> symmetric, key_bits |-> key_bits,
                 pub_exponent |-> pub_exponent,
                 out |-> create_restricted_decryption_rsa_public(
                             symmetric, key_bits, pub_exponent)]
    /\ builder' = Consumed

\* create_unrestricted_signing_rsa_public(scheme, key_bits, pub_exponent)
CreateUnrestrictedSigningRsaPublic ==
    /\ builder = NoBuilder
    /\ \E scheme \in AsymSchemeUnion, key_bits \in RSA_KEY_SIZES, pub_exponent \in Exponents :
        call' = [op |-> "create_unrestricted_signing_rsa_public",
                 scheme |-> scheme, key_bits |-> key_bits,
                 pub_exponent |-> pub_exponent,
                 out |-> create_unrestricted_signing_rsa_public(
                             scheme, key_bits, pub_exponent)]
    /\ builder' = Consumed

\* create_unrestricted_signing_ecc_public(scheme, curve)
CreateUnrestrictedSigningEccPublic ==
    /\ builder = NoBuilder
    /\ \E scheme \in AsymSchemeUnion, curve \in EllipticCurve :
        call' = [op |-> "create_unrestricted_signing_ecc_public",
                 scheme |-> scheme, curve |-> curve,
                 out |-> create_unrestricted_signing_ecc_public(scheme, curve)]
    /\ builder' = Consumed

\* a Signature value: the fields are pub
SignatureLiteral ==
    /\ builder = NoBuilder
    /\ \E sig \in Signature : builder' = [type |-> "Signature", b |-> sig]
    /\ call' = [op |-> "Signature { .. }"]

\* TPMT_SIGNATURE::try_from(sig): the signature is moved into the call; the
\* caller keeps the raw structure it returns
SignatureIntoRaw ==
    /\ builder.type = "Signature"
    /\ LET out == TPMT_SIGNATURE_try_from(builder.b)
       IN /\ call' = [op |-> "TPMT_SIGNATURE::try_from",
                      self |-> builder.b,
                      out |-> out]
          /\ builder' = IF out.kind = "Ok"
                        THEN [type |-> "TPMT_SIGNATURE",
                              b |-> unwrap(out.val),
                              origin |-> Some(builder.b)]
                        ELSE Consumed

\* a TPMT_SIGNATURE returned by the TPM
RawSignatureLiteral ==
    /\ builder = NoBuilder
    /\ \E raw \in TPMT_SIGNATURE :
        builder' = [type |-> "TPMT_SIGNATURE", b |-> raw, origin |-> None]
    /\ call' = [op |-> "TPMT_SIGNATURE { .. }"]

\* Signature::try_from(tss_signature); origin is the Signature the raw
\* structure was converted from, if it was
SignatureParse ==
    /\ builder.type = "TPMT_SIGNATURE"
    /\ call' = [op |-> "Signature::try_from",
                self |-> builder.b,
                origin |-> builder.origin,
                out |-> Signature_try_from(builder.b)]
    /\ builder' = Consumed

\* a TpmsContext read back by its derived Deserialize: any field values
ContextDeserialize ==
    /\ builder = NoBuilder
    /\ \E context \in TpmsContext :
        builder' = [type |-> "TpmsContext", b |-> context]
    /\ call' = [op |-> "TpmsContext::deserialize"]

\* TPMS_CONTEXT::try_from(context)
ContextIntoRaw ==
    /\ builder.type = "TpmsContext"
    /\ LET out == TPMS_CONTEXT_try_from(builder.b)
       IN /\ call' = [op |-> "TPMS_CONTEXT::try_from",
                      self |-> builder.b,
                      out |-> out]
          /\ builder' = IF out.kind = "Ok"
                        THEN [type |-> "TPMS_CONTEXT",
                              b |-> unwrap(out.val),
                              origin |-> Some(builder.b)]
                        ELSE Consumed

\* a TPMS_CONTEXT returned by the TPM
RawContextLiteral ==
    /\ builder = NoBuilder
    /\ \E raw \in TPMS_CONTEXT :
        builder' = [type |-> "TPMS_CONTEXT", b |-> raw, origin |-> None]
    /\ call' = [op |-> "TPMS_CONTEXT { .. }"]

\* TpmsContext::try_from(tss2_context); origin is the TpmsContext the raw
\* structure was converted from, if it was
ContextParse ==
    /\ builder.type = "TPMS_CONTEXT"
    /\ call' = [op |-> "TpmsContext::try_from",
                self |-> builder.b,
                origin |-> builder.origin,
                out |-> TpmsContext_try_from(builder.b)]
    /\ builder' = Consumed

\* a TPML_PCR_SELECTION returned by the TPM or filled in by the caller
RawPcrSelectionLiteral ==
    /\ builder = NoBuilder
    /\ \E count \in Counts, entries \in [1..MaxEntries -> TPMS_PCR_SELECTION],
          fill \in FillEntries :
        builder' = [type |-> "TPML_PCR_SELECTION",
                    b |-> TPML_PCR_SELECTION(count, entries, fill),
                    origin |-> None]
    /\ call' = [op |-> "TPML_PCR_SELECTION { .. }"]

\* PcrSelections::try_from(tpml_pcr_selection); origin is the PcrSelections
\* the raw list was converted from, if it was
PcrSelectionsParse ==
    /\ builder.type = "TPML_PCR_SELECTION"
    /\ call' = [op |-> "PcrSelections::try_from",
                self |-> builder.b,
                origin |-> builder.origin,
                out |-> PcrSelections_try_from(builder.b)]
    /\ builder' = Consumed

\* is_signing, is_decryption, is_rsa and is_ecc called on one scheme
SchemeClassify ==
    /\ builder = NoBuilder
    /\ \E scheme \in AsymSchemeUnion :
        call' = [op |-> "AsymSchemeUnion::is_*",
                 self |-> scheme,
                 is_signing |-> is_signing(scheme),
                 is_decryption |-> is_decryption(scheme),
                 is_rsa |-> is_rsa(scheme),
                 is_ecc |-> is_ecc(scheme)]
    /\ builder' = Consumed

\* h.rh() or h.esys_rh(): the caller keeps the handle
HierarchyToHandle ==
    /\ builder = NoBuilder
    /\ \E h \in Hierarchy :
        \/ /\ call' = [op |-> "Hierarchy::rh", self |-> h, out |-> rh(h)]
           /\ builder' = [type |-> "TPM2_HANDLE", b |-> rh(h), origin |-> Some(h)]
        \/ /\ call' = [op |-> "Hierarchy::esys_rh", self |-> h, out |-> esys_rh(h)]
           /\ builder' = [type |-> "TPM2_HANDLE", b |-> esys_rh(h), origin |-> Some(h)]

\* a handle from anywhere else
HandleLiteral ==
    /\ builder = NoBuilder
    /\ \E handle \in TPM2_HANDLE :
        builder' = [type |-> "TPM2_HANDLE", b |-> handle, origin |-> None]
    /\ call' = [op |-> "TPM2_HANDLE"]

\* Hierarchy::try_from(handle); origin is the hierarchy the handle was taken
\* from, if it was
HierarchyParse ==
    /\ builder.type = "TPM2_HANDLE"
    /\ call' = [op |-> "Hierarchy::try_from",
                self |-> builder.b,
                origin |-> builder.origin,
                out |-> Hierarchy_try_from(builder.b)]
    /\ builder' = Consumed

\* TpmaSessionBuilder::new(); flags_given and masks_given record the
\* arguments of the calls that follow
SessionNew ==
    /\ builder = NoBuilder
    /\ builder' = [type |-> "TpmaSessionBuilder",
                   b |-> TpmaSessionBuilder_new,
                   flags_given |-> <<>>,
                   masks_given |-> <<>>]
    /\ call' = [op |-> "TpmaSessionBuilder::new"]

SessionWithFlag ==
    /\ builder.type = "TpmaSessionBuilder"
    /\ Len(builder.flags_given) + Len(builder.masks_given) < MaxSessionCalls
    /\ \E flag \in TPMA_SESSION :
        builder' = [builder EXCEPT
                       !.b = TpmaSessionBuilder_with_flag(builder.b, flag),
                       !.flags_given = Append(@, flag)]
    /\ call' = [op |-> "TpmaSessionBuilder::with_flag"]

SessionWithMask ==
    /\ builder.type = "TpmaSessionBuilder"
    /\ Len(builder.flags_given) + Len(builder.masks_given) < MaxSessionCalls
    /\ \E mask \in TPMA_SESSION :
        builder' = [builder EXCEPT
                       !.b = TpmaSessionBuilder_with_mask(builder.b, mask),
                       !.masks_given = Append(@, mask)]
    /\ call' = [op |-> "TpmaSessionBuilder::with_mask"]

SessionBuild ==
    /\ builder.type = "TpmaSessionBuilder"
    /\ call' = [op |-> "TpmaSessionBuilder::build",
                self |-> builder.b,
                flags_given |-> builder.flags_given,
                masks_given |-> builder.masks_given,
                out |-> TpmaSessionBuilder_build(builder.b)]
    /\ builder' = [type |-> "TpmaSession", b |-> TpmaSessionBuilder_build(builder.b)]

SessionCloneWithNewMask ==
    /\ builder.type = "TpmaSession"
    /\ \E new_mask \in TPMA_SESSION :
        call' = [op |-> "TpmaSession::clone_with_new_mask",
                 self |-> builder.b,
                 new_mask |-> new_mask,
                 out |-> TpmaSession_clone_with_new_mask(builder.b, new_mask)]
    /\ builder' = Consumed

\* PcrSelectionsBuilder::new(); selections records the arguments of the
\* with_selection calls that follow
PcrBuilderNew ==
    /\ builder = NoBuilder
    /\ builder' = [type |-> "PcrSelectionsBuilder",
                   b |-> PcrSelectionsBuilder_new,
                   selections |-> <<>>]
    /\ call' = [op |-> "PcrSelectionsBuilder::new"]

PcrBuilderWithSizeOfSelect ==
    /\ builder.type = "PcrSelectionsBuilder"
    /\ \E size_of_select \in PcrSelectSize :
        builder' = [builder EXCEPT
                       !.b = PcrSelectionsBuilder_with_size_of_select(
                                 builder.b, size_of_select)]
    /\ call' = [op |-> "PcrSelectionsBuilder::with_size_of_select"]

PcrBuilderWithSelection ==
    /\ builder.type = "PcrSelectionsBuilder"
    /\ Len(builder.selections) < MaxSelections
    /\ \E hash_algorithm \in HashingAlgorithm, pcr_slots \in SlotLists :
        builder' = [builder EXCEPT
                       !.b = PcrSelectionsBuilder_with_selection(
                                 builder.b, hash_algorithm, pcr_slots),
                       !.selections = Append(@, [hash_algorithm |-> hash_algorithm,
                                                 pcr_slots |-> pcr_slots])]
    /\ call' = [op |-> "PcrSelectionsBuilder::with_selection"]

PcrBuilderBuild ==
    /\ builder.type = "PcrSelectionsBuilder"
    /\ call' = [op |-> "PcrSelectionsBuilder::build",
                self |-> builder.b,
                selections |-> builder.selections,
                out |-> PcrSelectionsBuilder_build(builder.b)]
    /\ builder' = [type |-> "PcrSelections",
                   b |-> PcrSelectionsBuilder_build(builder.b)]

\* TPML_PCR_SELECTION::from(pcr_selections): the HashMap is iterated in an
\* order the program does not choose
PcrSelectionsIntoRaw ==
    /\ builder.type = "PcrSelections"
    /\ \E order \in IterationOrders(builder.b.items) :
        /\ call' = [op |-> "TPML_PCR_SELECTION::from",
                    self |-> builder.b,
                    out |-> TPML_PCR_SELECTION_from(builder.b, order)]
        /\ builder' = [type |-> "TPML_PCR_SELECTION",
                       b |-> TPML_PCR_SELECTION_from(builder.b, order),
                       origin |-> Some(builder.b)]

Next ==
    \/ RsaNewRestrictedDecryptionKey
    \/ RsaNewUnrestrictedSigningKey
    \/ RsaStructLiteral
    \/ RsaBuild
    \/ EccNewRestrictedDecryptionKey
    \/ EccNewUnrestrictedSigningKey
    \/ EccStructLiteral
    \/ EccBuild
    \/ PubNew
    \/ PubWithType
    \/ PubWithNameAlg
    \/ PubWithObjectAttributes
    \/ PubWithAuthPolicy
    \/ PubWithParms
    \/ PubWithUnique
    \/ PubBuild
    \/ CreateRestrictedDecryptionRsaPublic
    \/ CreateUnrestrictedSigningRsaPublic
    \/ CreateUnrestrictedSigningEccPublic
    \/ SignatureLiteral
    \/ SignatureIntoRaw
    \/ RawSignatureLiteral
    \/ SignatureParse
    \/ ContextDeserialize
    \/ ContextIntoRaw
    \/ RawContextLiteral
    \/ ContextParse
    \/ RawPcrSelectionLiteral
    \/ PcrSelectionsParse
    \/ SchemeClassify
    \/ HierarchyToHandle
    \/ HandleLiteral
    \/ HierarchyParse
    \/ SessionNew
    \/ SessionWithFlag
    \/ SessionWithMask
    \/ SessionBuild
    \/ SessionCloneWithNewMask
    \/ PcrBuilderNew
    \/ PcrBuilderWithSizeOfSelect
    \/ PcrBuilderWithSelection
    \/ PcrBuilderBuild
    \/ PcrSelectionsIntoRaw

Spec == Init /\ [][Next]_vars

----------------------------------------------------------------------------
(* Properties of the parameter builders                                    *)

RsaBuilt == call.op = "TpmsRsaParmsBuilder::build"

EccBuilt == call.op = "TpmsEccParmsBuilder::build"

PubBuilt == call.op = "Tpm2BPublicBuilder::build"

\* the symmetric-cipher rule of a parameter builder b
SymmetricRequired(b) == b.restricted /\ b.for_decryption

SymmetricRuleSatisfied(b) == is_some(b.symmetric) <=> SymmetricRequired(b)

BnCurves == {"BnP256", "BnP638"}

EccSigningIds == {TPM2_ALG_ECDSA, TPM2_ALG_ECDAA, TPM2_ALG_SM2, TPM2_ALG_ECSCHNORR}

EccDecryptionIds == {TPM2_ALG_SM2, TPM2_ALG_ECDH, TPM2_ALG_ECMQV, TPM2_ALG_NULL}

\* C1: in both parameter builders the symmetric-cipher rule is decided first,
\* whatever the scheme, key size or curve: a restricted decryption key without
\* a symmetric cipher gives ParamsMissing, any other key with a symmetric
\* cipher gives InconsistentParams.
C1_SymmetricRuleFirst ==
    (RsaBuilt \/ EccBuilt) =>
        /\ (SymmetricRequired(call.self) /\ is_none(call.self.symmetric))
               => call.out.kind = "ParamsMissing"
        /\ (~SymmetricRequired(call.self) /\ is_some(call.self.symmetric))
               => call.out.kind = "InconsistentParams"

\* an RSA build without a scheme whose symmetric cipher is out of place: the
\* symmetric rule answers before the missing scheme does
C1_Witness ==
    /\ RsaBuilt
    /\ is_none(call.self.scheme)
    /\ ~SymmetricRequired(call.self)
    /\ is_some(call.self.symmetric)
    /\ call.out.kind = "InconsistentParams"

\* C2 as stated: an RSA build without a scheme returns ParamsMissing for all
\* values of the other fields.
C2_NoSchemeAlwaysParamsMissing ==
    (RsaBuilt /\ is_none(call.self.scheme)) => call.out.kind = "ParamsMissing"

\* C2 amended: an RSA build without a scheme never succeeds; it returns
\* ParamsMissing unless a symmetric cipher is set on a key that is not a
\* restricted decryption key, which the symmetric rule rejects first with
\* InconsistentParams.
C2_NoSchemeAmended ==
    (RsaBuilt /\ is_none(call.self.scheme)) =>
        call.out.kind =
            IF ~SymmetricRequired(call.self) /\ is_some(call.self.symmetric)
            THEN "InconsistentParams"
            ELSE "ParamsMissing"

C2_Witness ==
    /\ RsaBuilt
    /\ is_none(call.self.scheme)
    /\ SymmetricRuleSatisfied(call.self)
    /\ call.self.for_signing
    /\ call.out.kind = "ParamsMissing"

\* the scheme rules of the RSA builder, as the specification lists them
RsaSchemeRejected(b, id) ==
    \/ b.restricted /\ b.for_signing /\ id \notin {TPM2_ALG_RSAPSS, TPM2_ALG_RSASSA}
    \/ b.restricted /\ b.for_decryption /\ id # TPM2_ALG_NULL
    \/ ~b.restricted /\ b.for_signing /\ b.for_decryption /\ id # TPM2_ALG_NULL
    \/ ~b.restricted /\ b.for_signing
         /\ id \notin {TPM2_ALG_RSAPSS, TPM2_ALG_RSASSA, TPM2_ALG_NULL}
    \/ ~b.restricted /\ b.for_decryption
         /\ id \notin {TPM2_ALG_RSAES, TPM2_ALG_OAEP, TPM2_ALG_NULL}

\* C3: an RSA build with a scheme and a satisfied symmetric rule returns
\* InconsistentParams exactly when one of the five scheme rules rejects the
\* scheme ID, and Ok otherwise.
C3_RsaSchemeRules ==
    (RsaBuilt /\ is_some(call.self.scheme) /\ SymmetricRuleSatisfied(call.self)) =>
        call.out.kind =
            IF RsaSchemeRejected(call.self, scheme_id(unwrap(call.self.scheme)))
            THEN "InconsistentParams"
            ELSE "Ok"

\* a restricted signing key with RSASSA is built
C3_Witness ==
    /\ RsaBuilt
    /\ is_some(call.self.scheme)
    /\ call.self.restricted /\ call.self.for_signing /\ ~call.self.for_decryption
    /\ unwrap(call.self.scheme).tag = "RSASSA"
    /\ call.out.kind = "Ok"

\* C4: a restricted ECC decryption key with a symmetric cipher and a scheme
\* other than NULL is rejected with InconsistentParams.
C4_EccRestrictedDecryptionNeedsNull ==
    ( /\ EccBuilt
      /\ call.self.restricted /\ call.self.for_decryption /\ ~call.self.for_signing
      /\ is_some(call.self.symmetric)
      /\ scheme_id(call.self.scheme) # TPM2_ALG_NULL )
    => call.out.kind = "InconsistentParams"

\* C5 as stated: an ECC build for signing and decryption never succeeds, and
\* a decryption-only build with a scheme outside {SM2, ECDH, ECMQV, NULL}
\* returns InconsistentParams.
C5_EccDecryptionRules ==
    EccBuilt =>
        /\ (call.self.for_signing /\ call.self.for_decryption)
               => call.out.kind # "Ok"
        /\ ( /\ call.self.for_decryption /\ ~call.self.for_signing
             /\ scheme_id(call.self.scheme) \notin EccDecryptionIds )
               => call.out.kind = "InconsistentParams"

\* C5 amended: an ECC build for signing and decryption never succeeds; a
\* decryption-only build with a scheme outside {SM2, ECDH, ECMQV, NULL} never
\* succeeds either: it returns InconsistentParams, except that a restricted
\* key without a symmetric cipher gets ParamsMissing from the symmetric rule.
C5_EccDecryptionRulesAmended ==
    EccBuilt =>
        /\ (call.self.for_signing /\ call.self.for_decryption)
               => call.out.kind # "Ok"
        /\ ( /\ call.self.for_decryption /\ ~call.self.for_signing
             /\ scheme_id(call.self.scheme) \notin EccDecryptionIds )
               => call.out.kind =
                    IF call.self.restricted /\ is_none(call.self.symmetric)
                    THEN "ParamsMissing"
                    ELSE "InconsistentParams"

\* signing and decryption with SM2, which either purpose alone permits
C5_Witness ==
    /\ EccBuilt
    /\ call.self.for_signing /\ call.self.for_decryption
    /\ SymmetricRuleSatisfied(call.self)
    /\ call.self.curve \notin BnCurves
    /\ scheme_id(call.self.scheme) = TPM2_ALG_SM2
    /\ call.out.kind = "InconsistentParams"

\* C6: on BnP256 and BnP638 an ECC build succeeds with ECDAA only, and with a
\* satisfied symmetric rule any other scheme gives InconsistentParams; on
\* every other curve the outcome is decided by the symmetric rule and the
\* signing/decryption scheme sets alone.
C6_BnCurvesNeedEcdaa ==
    EccBuilt =>
        LET b == call.self
            id == scheme_id(call.self.scheme)
        IN /\ (b.curve \in BnCurves /\ call.out.kind = "Ok") => id = TPM2_ALG_ECDAA
           /\ ( /\ b.curve \in BnCurves
                /\ SymmetricRuleSatisfied(b)
                /\ id # TPM2_ALG_ECDAA ) => call.out.kind = "InconsistentParams"
           /\ b.curve \notin BnCurves =>
                ( call.out.kind = "Ok" <=>
                    /\ SymmetricRuleSatisfied(b)
                    /\ ~(b.for_signing /\ b.for_decryption)
                    /\ b.for_signing => id \in EccSigningIds
                    /\ b.for_decryption => id \in EccDecryptionIds )

\* a signing key on BnP638 with ECDSA, which any other curve would accept
C6_Witness ==
    /\ EccBuilt
    /\ call.self.curve = "BnP638"
    /\ call.self.for_signing /\ ~call.self.for_decryption
    /\ is_none(call.self.symmetric)
    /\ scheme_id(call.self.scheme) = TPM2_ALG_ECDSA
    /\ call.out.kind = "InconsistentParams"

\* the builders the restricted-decryption-key entry points return
RsaRestrictedDecryptionKeys ==
    {TpmsRsaParmsBuilder_new_restricted_decryption_key(symmetric, key_bits, exponent) :
        symmetric \in SymDefObjects, key_bits \in RSA_KEY_SIZES, exponent \in Exponents}

EccRestrictedDecryptionKeys ==
    {TpmsEccParmsBuilder_new_restricted_decryption_key(symmetric, curve) :
        symmetric \in Cipher, curve \in EllipticCurve}

RestrictedDecryptionFlags(b) ==
    ~b.for_signing /\ b.for_decryption /\ b.restricted

\* C7 as stated: every builder returned by new_restricted_decryption_key, of
\* either family, has the flags decrypt-only/restricted and the NULL scheme,
\* and its build returns Ok.
C7_RestrictedDecryptionKeyBuilds ==
    /\ (RsaBuilt /\ call.self \in RsaRestrictedDecryptionKeys) =>
           /\ RestrictedDecryptionFlags(call.self)
           /\ scheme_id(unwrap(call.self.scheme)) = TPM2_ALG_NULL
           /\ call.out.kind = "Ok"
    /\ (EccBuilt /\ call.self \in EccRestrictedDecryptionKeys) =>
           /\ RestrictedDecryptionFlags(call.self)
           /\ scheme_id(call.self.scheme) = TPM2_ALG_NULL
           /\ call.out.kind = "Ok"

\* C7 amended: as C7, except that the ECC build returns Ok on every curve
\* other than BnP256 and BnP638 and InconsistentParams on those two.
C7_RestrictedDecryptionKeyBuildsAmended ==
    /\ (RsaBuilt /\ call.self \in RsaRestrictedDecryptionKeys) =>
           /\ RestrictedDecryptionFlags(call.self)
           /\ scheme_id(unwrap(call.self.scheme)) = TPM2_ALG_NULL
           /\ call.out.kind = "Ok"
    /\ (EccBuilt /\ call.self \in EccRestrictedDecryptionKeys) =>
           /\ RestrictedDecryptionFlags(call.self)
           /\ scheme_id(call.self.scheme) = TPM2_ALG_NULL
           /\ call.out.kind = IF call.self.curve \in BnCurves
                              THEN "InconsistentParams"
                              ELSE "Ok"

C7_Witness ==
    /\ EccBuilt
    /\ call.self \in EccRestrictedDecryptionKeys
    /\ call.self.curve = "NistP256"
    /\ call.out.kind = "Ok"

EccPublicCreated == call.op = "create_unrestricted_signing_ecc_public"

----------------------------------------------------------------------------
(* Properties of the public-area builder                                   *)

RsaOrEcc(b) == b.type_ \in {Some(TPM2_ALG_RSA), Some(TPM2_ALG_ECC)}

\* the object type a unique-value variant belongs to
unique_type(variant) ==
    CASE variant = "Rsa" -> TPM2_ALG_RSA
      [] variant = "Ecc" -> TPM2_ALG_ECC
      [] variant = "Sym" -> TPM2_ALG_SYMCIPHER
      [] variant = "KeyedHash" -> TPM2_ALG_KEYEDHASH

ParmsMismatch(b) ==
    is_some(b.parameters) /\ Some(object_type(unwrap(b.parameters))) # b.type_

UniqueMismatch(b) ==
    is_some(b.unique) /\ Some(unique_type(unwrap(b.unique).variant)) # b.type_

\* C9: a public-area build of type RSA or ECC on which with_parms was never
\* called returns ParamsMissing, whatever the other setters were given.
C9_PublicParamsMissing ==
    (PubBuilt /\ RsaOrEcc(call.self) /\ is_none(call.self.parameters)) =>
        call.out.kind = "ParamsMissing"

\* no parameter block, and a unique value of the other key family
C9_Witness ==
    /\ PubBuilt
    /\ call.self.type_ = Some(TPM2_ALG_RSA)
    /\ is_none(call.self.parameters)
    /\ UniqueMismatch(call.self)
    /\ call.self.name_alg = TPM2_ALG_SHA256
    /\ call.out.kind = "ParamsMissing"

\* C10 as stated: a public-area build of type RSA or ECC returns
\* InconsistentParams whenever the parameter block's variant does not match
\* the type, and whenever a unique value of another variant is supplied.
C10_PublicInconsistent ==
    (PubBuilt /\ RsaOrEcc(call.self)) =>
        /\ ParmsMismatch(call.self) => call.out.kind = "InconsistentParams"
        /\ UniqueMismatch(call.self) => call.out.kind = "InconsistentParams"

\* C10 amended: a public-area build of type RSA or ECC returns
\* InconsistentParams whenever the parameter block's variant does not match
\* the type, and whenever a parameter block was supplied together with a
\* unique value of another variant; without a parameter block the result is
\* ParamsMissing.
C10_PublicInconsistentAmended ==
    (PubBuilt /\ RsaOrEcc(call.self)) =>
        /\ ParmsMismatch(call.self) => call.out.kind = "InconsistentParams"
        /\ (is_some(call.self.parameters) /\ UniqueMismatch(call.self))
               => call.out.kind = "InconsistentParams"

\* a matching parameter block with a unique value of the other key family
C10_Witness ==
    /\ PubBuilt
    /\ call.self.type_ = Some(TPM2_ALG_RSA)
    /\ is_some(call.self.parameters)
    /\ ~ParmsMismatch(call.self)
    /\ is_some(call.self.unique)
    /\ unwrap(call.self.unique).variant = "Ecc"
    /\ call.out.kind = "InconsistentParams"

\* C11: a public-area build returns UnsupportedParam for every object type
\* other than RSA or ECC, a builder without a type included, whatever
\* parameter block or unique value was set; it returns Ok only when the type,
\* the parameter block's variant and the unique value's variant, if there is
\* one, name the same key family.
C11_PublicUnsupportedType ==
    PubBuilt =>
        /\ ~RsaOrEcc(call.self) => call.out.kind = "UnsupportedParam"
        /\ call.out.kind = "Ok" =>
              /\ RsaOrEcc(call.self)
              /\ is_some(call.self.parameters)
              /\ ~ParmsMismatch(call.self)
              /\ ~UniqueMismatch(call.self)

\* a builder on which with_type was never called, with RSA parameters and an
\* RSA unique value
C11_Witness ==
    /\ PubBuilt
    /\ is_none(call.self.type_)
    /\ is_some(call.self.parameters)
    /\ unwrap(call.self.parameters).variant = "RsaDetail"
    /\ is_some(call.self.unique)
    /\ unwrap(call.self.unique).variant = "Rsa"
    /\ call.out.kind = "UnsupportedParam"

----------------------------------------------------------------------------
(* Signature conversions                                                   *)

SignatureConverted == call.op = "TPMT_SIGNATURE::try_from"

SignatureParsed == call.op = "Signature::try_from"

SupportedSchemes == {"RSASSA", "RSAPSS", "ECDSA"}

\* C12: converting a Signature to the raw structure fails, whatever the
\* payload, when the scheme is not RSASSA, RSAPSS or ECDSA: with
\* InconsistentParams for the decryption schemes ECDH, ECMQV, RSAOAEP and
\* RSAES, with UnsupportedParam for ECDAA, SM2, ECSchnorr and AnySig.
C12_UnsupportedSchemes ==
    (SignatureConverted /\ call.self.scheme.tag \notin SupportedSchemes) =>
        /\ call.self.scheme.tag \in {"ECDH", "ECMQV", "RSAOAEP", "RSAES"} =>
               call.out.kind = "InconsistentParams"
        /\ call.self.scheme.tag \in {"ECDAA", "SM2", "ECSchnorr", "AnySig"} =>
               call.out.kind = "UnsupportedParam"
        /\ call.out.kind \in {"InconsistentParams", "UnsupportedParam"}

C12_Witness ==
    /\ SignatureConverted
    /\ call.self.scheme.tag = "RSAOAEP"
    /\ call.self.signature.variant = "RsaSignature"
    /\ Len(call.self.signature.value.signature) = 1
    /\ call.out.kind = "InconsistentParams"

\* the payload shape does not match the scheme's key family
ShapeMismatch(sig) ==
    \/ is_rsa(sig.scheme) /\ sig.signature.variant = "EcdsaSignature"
    \/ is_ecc(sig.scheme) /\ sig.signature.variant = "RsaSignature"

\* C13: converting a Signature with a signing scheme fails with
\* InconsistentParams whenever the payload shape does not match the scheme's
\* key family (an is_rsa scheme with an (r, s) pair, an is_ecc scheme with a
\* single sequence), the shape being tested before the payload size.
C13_ShapeMismatch ==
    (SignatureConverted /\ is_signing(call.self.scheme)
                        /\ ShapeMismatch(call.self)) =>
        call.out.kind = "InconsistentParams"

\* C13 amended: the shape mismatch gives InconsistentParams, whatever the
\* payload size, for the schemes RSASSA, RSAPSS and ECDSA; the other signing
\* schemes give UnsupportedParam whatever the payload shape.
C13_ShapeMismatchAmended ==
    (SignatureConverted /\ is_signing(call.self.scheme)) =>
        /\ (call.self.scheme.tag \in SupportedSchemes /\ ShapeMismatch(call.self)) =>
               call.out.kind = "InconsistentParams"
        /\ call.self.scheme.tag \notin SupportedSchemes =>
               call.out.kind = "UnsupportedParam"

C13_Witness ==
    /\ SignatureConverted
    /\ call.self.scheme.tag = "ECDSA"
    /\ call.self.signature.variant = "RsaSignature"
    /\ Len(call.self.signature.value.signature) > RsaSignatureCapacity
    /\ call.out.kind = "InconsistentParams"

\* the raw buffer holds the payload, then zeroes up to its capacity
HoldsPayload(buf, vec, cap) ==
    /\ buf.size = Len(vec)
    /\ Len(buf.buffer) = cap
    /\ \A i \in 1..Len(vec) : buf.buffer[i] = vec[i]
    /\ \A i \in (Len(vec) + 1)..cap : buf.buffer[i] = 0

\* C14: with RSASSA or RSAPSS and a single-sequence payload the conversion
\* succeeds exactly when the payload has at most 512 bytes; with ECDSA and a
\* pair it succeeds exactly when r and s have at most 128 bytes each; every
\* failure is WrongParamSize; on success each size field is the payload's
\* length, the buffer starts with the payload and is zero after it.
C14_SizeBounds ==
    (SignatureConverted /\ call.self.scheme.tag \in SupportedSchemes
                        /\ ~ShapeMismatch(call.self)) =>
        IF call.self.signature.variant = "RsaSignature"
        THEN LET v == call.self.signature.value.signature
             IN /\ call.out.kind = "Ok" <=> Len(v) <= 512
                /\ call.out.kind # "Ok" => call.out.kind = "WrongParamSize"
                /\ call.out.kind = "Ok" =>
                       HoldsPayload(unwrap(call.out.val).signature.sig, v, 512)
        ELSE LET r == call.self.signature.value.r
                 s == call.self.signature.value.s
             IN /\ call.out.kind = "Ok" <=> (Len(r) <= 128 /\ Len(s) <= 128)
                /\ call.out.kind # "Ok" => call.out.kind = "WrongParamSize"
                /\ call.out.kind = "Ok" =>
                       /\ HoldsPayload(unwrap(call.out.val).signature.signatureR, r, 128)
                       /\ HoldsPayload(unwrap(call.out.val).signature.signatureS, s, 128)

C14_Witness ==
    /\ SignatureConverted
    /\ call.self.scheme.tag = "RSAPSS"
    /\ call.self.signature.variant = "RsaSignature"
    /\ Len(call.self.signature.value.signature) = 512
    /\ call.self.signature.value.signature[1] # 0
    /\ call.out.kind = "Ok"

\* C15: a Signature with RSASSA or RSAPSS and at most 512 payload bytes, or
\* with ECDSA and at most 128 bytes in each of r and s, converted to the raw
\* structure and parsed back, comes back with the same scheme variant, the
\* same hash algorithm and the same payload bytes.
C15_SignatureRoundTrip ==
    (SignatureParsed /\ is_some(call.origin)) =>
        LET sig == unwrap(call.origin)
        IN /\ call.out.kind = "Ok"
           /\ unwrap(call.out.val).scheme.tag = sig.scheme.tag
           /\ unwrap(call.out.val).scheme.hash = sig.scheme.hash
           /\ unwrap(call.out.val).signature = sig.signature

C15_Witness ==
    /\ SignatureParsed
    /\ is_some(call.origin)
    /\ unwrap(call.origin).scheme.tag = "ECDSA"
    /\ Len(unwrap(call.origin).signature.value.r) = 128
    /\ Len(unwrap(call.origin).signature.value.s) = 1
    /\ unwrap(call.origin).signature.value.s[1] # 0
    /\ call.out.kind = "Ok"

\* the scheme variant Signature::try_from gives for an algorithm tag
TagVariant(sigAlg) ==
    CASE sigAlg = TPM2_ALG_RSASSA -> "RSASSA"
      [] sigAlg = TPM2_ALG_RSAPSS -> "RSAPSS"
      [] sigAlg = TPM2_ALG_ECDSA -> "ECDSA"

RecognisedHashIds == {HashingAlgorithm_into(h) : h \in HashingAlgorithm}

\* C16: parsing a raw signature tagged RSASSA, RSAPSS or ECDSA whose hash
\* word is recognised fails with InconsistentParams if a declared size is
\* above its buffer's capacity (512 for RSA, 128 for r and for s); otherwise
\* it succeeds, each component is the first size bytes of its buffer and
\* the scheme variant is the one the tag names.
C16_ParseSupported ==
    (SignatureParsed
        /\ call.self.sigAlg \in {TPM2_ALG_RSASSA, TPM2_ALG_RSAPSS, TPM2_ALG_ECDSA}
        /\ call.self.signature.hash \in RecognisedHashIds) =>
        LET u == call.self.signature
            first(buf) == [i \in 1..buf.size |-> buf.buffer[i]]
        IN IF call.self.sigAlg = TPM2_ALG_ECDSA
           THEN IF u.signatureR.size > 128 \/ u.signatureS.size > 128
                THEN call.out.kind = "InconsistentParams"
                ELSE /\ call.out.kind = "Ok"
                     /\ unwrap(call.out.val).scheme.tag = "ECDSA"
                     /\ unwrap(call.out.val).signature.variant = "EcdsaSignature"
                     /\ unwrap(call.out.val).signature.value.r = first(u.signatureR)
                     /\ unwrap(call.out.val).signature.value.s = first(u.signatureS)
           ELSE IF u.sig.size > 512
                THEN call.out.kind = "InconsistentParams"
                ELSE /\ call.out.kind = "Ok"
                     /\ unwrap(call.out.val).scheme.tag = TagVariant(call.self.sigAlg)
                     /\ unwrap(call.out.val).signature.variant = "RsaSignature"
                     /\ unwrap(call.out.val).signature.value.signature = first(u.sig)

C16_Witness ==
    /\ SignatureParsed
    /\ is_none(call.origin)
    /\ call.self.sigAlg = TPM2_ALG_ECDSA
    /\ call.self.signature.hash = TPM2_ALG_SHA1
    /\ call.self.signature.signatureR.size = 2
    /\ call.self.signature.signatureS.size = 129
    /\ call.out.kind = "InconsistentParams"

\* C17: parsing a raw signature tagged SM2, ECSCHNORR or ECDAA fails with
\* UnsupportedParam, and one with any tag other than these and RSASSA,
\* RSAPSS and ECDSA fails with InconsistentParams, whatever the union holds.
C17_ParseUnsupported ==
    (SignatureParsed
        /\ call.self.sigAlg \notin {TPM2_ALG_RSASSA, TPM2_ALG_RSAPSS, TPM2_ALG_ECDSA}) =>
        IF call.self.sigAlg \in {TPM2_ALG_SM2, TPM2_ALG_ECSCHNORR, TPM2_ALG_ECDAA}
        THEN call.out.kind = "UnsupportedParam"
        ELSE call.out.kind = "InconsistentParams"

C17_Witness ==
    /\ SignatureParsed
    /\ call.self.sigAlg = TPM2_ALG_ECDAA
    /\ call.self.signature.layout = "TPMS_SIGNATURE_ECDSA"
    /\ call.out.kind = "UnsupportedParam"

----------------------------------------------------------------------------
(* Context conversions                                                     *)

ContextParsed == call.op = "TpmsContext::try_from"

ContextConverted == call.op = "TPMS_CONTEXT::try_from"

\* C18: TpmsContext::try_from fails with WrongParamSize whenever the declared
\* contextBlob.size is above the buffer's capacity of 5188; otherwise it
\* succeeds, the blob is the first size bytes of the buffer, and sequence,
\* saved handle and hierarchy are copied unchanged.
C18_ContextParse ==
    ContextParsed =>
        LET blob == call.self.contextBlob
        IN IF blob.size > 5188
           THEN call.out.kind = "WrongParamSize"
           ELSE /\ call.out.kind = "Ok"
                /\ unwrap(call.out.val).context_blob =
                       [i \in 1..blob.size |-> blob.buffer[i]]
                /\ unwrap(call.out.val).sequence = call.self.sequence
                /\ unwrap(call.out.val).saved_handle = call.self.savedHandle
                /\ unwrap(call.out.val).hierarchy = call.self.hierarchy

\* C19: TPMS_CONTEXT::try_from succeeds exactly when the blob has at most 5188
\* bytes and fails with WrongParamSize otherwise; on success contextBlob.size
\* is the blob's length, the buffer starts with the blob and is zero after
\* it, and sequence, saved handle and hierarchy are copied unchanged.
C19_ContextIntoRaw ==
    ContextConverted =>
        /\ call.out.kind = "Ok" <=> Len(call.self.context_blob) <= 5188
        /\ call.out.kind # "Ok" => call.out.kind = "WrongParamSize"
        /\ call.out.kind = "Ok" =>
               /\ HoldsPayload(unwrap(call.out.val).contextBlob,
                               call.self.context_blob, 5188)
               /\ unwrap(call.out.val).sequence = call.self.sequence
               /\ unwrap(call.out.val).savedHandle = call.self.saved_handle
               /\ unwrap(call.out.val).hierarchy = call.self.hierarchy

C19_Witness ==
    /\ ContextConverted
    /\ Len(call.self.context_blob) = 5188
    /\ call.self.context_blob[1] # 0
    /\ call.self.sequence # call.self.saved_handle
    /\ call.out.kind = "Ok"

----------------------------------------------------------------------------
(* PCR selection lists                                                     *)

PcrSelectionsParsed == call.op = "PcrSelections::try_from"

\* the errors entry i of the list offends with, first being the index of
\* the list's first entry
Offences(list, i) ==
    LET entry == list.pcrSelections[i]
    IN {kind \in {"UnsupportedParam", "InvalidParam"} :
           \/ /\ kind = "UnsupportedParam"
              /\ u32_from_le_bytes(entry.pcrSelect) >= 16777216
           \/ /\ kind = "InvalidParam"
              /\ entry.sizeofSelect \notin {1, 2, 3, 4}
           \/ /\ kind = "UnsupportedParam"
              /\ \E j \in 1..(i - 1) :
                    list.pcrSelections[j].sizeofSelect # entry.sizeofSelect
           \/ /\ kind = "InvalidParam"
              /\ entry.hash \notin RecognisedHashIds}

\* C20: PcrSelections::try_from examines the entries 0..count-1 in order and
\* fails at the first offending one: UnsupportedParam for a bit outside the
\* 24 slot bits, InvalidParam for a sizeofSelect outside {1,2,3,4},
\* UnsupportedParam for a sizeofSelect differing from an earlier entry's,
\* InvalidParam for an unrecognised hash word. With no offending entry it
\* returns Ok with the entries' common sizeofSelect as selection size; with
\* count = 0 it returns Ok with an empty mapping and the three-byte size.
C20_PcrSelectionsParse ==
    PcrSelectionsParsed =>
        LET list == call.self
            examined == {i \in 1..TPM2_NUM_PCR_BANKS : i <= list.count}
            offending == {i \in examined : Offences(list, i) # {}}
        IN IF offending # {}
           THEN LET first == CHOOSE i \in offending : \A j \in offending : i <= j
                IN call.out.kind \in Offences(list, first)
           ELSE /\ call.out.kind = "Ok"
                /\ list.count > 0 =>
                       Some(unwrap(call.out.val).size_of_select) =
                           PcrSelectSize_from_u8(list.pcrSelections[1].sizeofSelect)
                /\ list.count = 0 =>
                       /\ DOMAIN unwrap(call.out.val).items = {}
                       /\ unwrap(call.out.val).size_of_select = "ThreeBytes"

----------------------------------------------------------------------------
(* Scheme classification, ECC signing keys, context round trip             *)

SchemeClassified == call.op = "AsymSchemeUnion::is_*"

\* C25: every scheme is in exactly one of the categories signing and
\* decryption: is_signing is the negation of is_decryption for every variant
\* and payload, and RSAES, RSAOAEP, ECDH and ECMQV are decryption schemes.
C25_SigningOrDecryption ==
    SchemeClassified =>
        /\ call.is_signing = ~call.is_decryption
        /\ call.self.tag \in {"RSAES", "RSAOAEP", "ECDH", "ECMQV"} =>
               (call.is_decryption /\ ~call.is_signing)

C25_Witness ==
    /\ SchemeClassified
    /\ call.self.tag = "RSAES"
    /\ call.is_decryption
    /\ ~call.is_signing

\* C26: no scheme is both is_rsa and is_ecc; every scheme other than AnySig
\* is exactly one of them; AnySig is neither.
C26_KeyFamily ==
    SchemeClassified =>
        /\ ~(call.is_rsa /\ call.is_ecc)
        /\ call.self.tag # "AnySig" => (call.is_rsa \/ call.is_ecc)
        /\ call.self.tag = "AnySig" => (~call.is_rsa /\ ~call.is_ecc)

\* C29: an ECC build for signing and not for decryption returns Ok exactly
\* when no symmetric cipher is set, the scheme id is ECDSA, ECDAA, SM2 or
\* ECSCHNORR, and a BN curve comes with ECDAA; the restricted flag does not
\* matter, and the NULL scheme (AnySig) is rejected with InconsistentParams.
C29_EccSigningBuild ==
    (EccBuilt /\ call.self.for_signing /\ ~call.self.for_decryption) =>
        /\ call.out.kind = "Ok" <=>
               /\ is_none(call.self.symmetric)
               /\ scheme_id(call.self.scheme) \in EccSigningIds
               /\ call.self.curve \in BnCurves =>
                      scheme_id(call.self.scheme) = TPM2_ALG_ECDAA
        /\ call.out.kind =
               TpmsEccParmsBuilder_build(
                   [call.self EXCEPT !.restricted = ~call.self.restricted]).kind
        /\ call.self.scheme.tag = "AnySig" =>
               call.out.kind = "InconsistentParams"

C29_Witness ==
    /\ EccBuilt
    /\ call.self.for_signing /\ ~call.self.for_decryption
    /\ call.self.restricted
    /\ is_none(call.self.symmetric)
    /\ call.self.curve = "BnP256"
    /\ scheme_id(call.self.scheme) = TPM2_ALG_ECDAA
    /\ call.out.kind = "Ok"

\* C30: a TpmsContext with a blob of at most 5188 bytes, converted to
\* TPMS_CONTEXT and back with TpmsContext::try_from, comes back with the same
\* sequence, saved handle and hierarchy and the same blob bytes, the empty
\* blob and a blob of 5188 bytes included.
C30_ContextRoundTrip ==
    (ContextParsed /\ is_some(call.origin)) =>
        /\ call.out.kind = "Ok"
        /\ unwrap(call.out.val) = unwrap(call.origin)

C30_Witness ==
    /\ ContextParsed
    /\ is_some(call.origin)
    /\ Len(unwrap(call.origin).context_blob) = 2
    /\ unwrap(call.origin).context_blob[2] # 0
    /\ unwrap(call.origin).hierarchy # unwrap(call.origin).sequence
    /\ call.out.kind = "Ok"

----------------------------------------------------------------------------
(* Hierarchy                                                               *)

HierarchyParsed == call.op = "Hierarchy::try_from"

\* C24: for each of Null, Owner, Platform and Endorsement, try_from(h.rh())
\* and try_from(h.esys_rh()) give h back; rh and esys_rh give a handle for
\* every hierarchy and different handles for different hierarchies; try_from
\* of a handle that is none of the eight fails with InconsistentParams.
C24_HierarchyRoundTrip ==
    /\ (HierarchyParsed /\ is_some(call.origin)) =>
           call.out = Ok(unwrap(call.origin))
    /\ (HierarchyParsed /\ call.self \notin HierarchyHandles) =>
           call.out.kind = "InconsistentParams"
    /\ call.op = "Hierarchy::rh" =>
           \A h \in Hierarchy : rh(h) = call.out => h = call.self
    /\ call.op = "Hierarchy::esys_rh" =>
           \A h \in Hierarchy : esys_rh(h) = call.out => h = call.self

C24_Witness ==
    /\ HierarchyParsed
    /\ call.origin = Some("Endorsement")
    /\ call.self = ESYS_TR_RH_ENDORSEMENT
    /\ call.out.kind = "Ok"

----------------------------------------------------------------------------
(* Session attributes                                                      *)

SessionBuilt == call.op = "TpmaSessionBuilder::build"

SessionCloned == call.op = "TpmaSession::clone_with_new_mask"

\* the positions of the bits set in a word
WordBits(word) == {bit \in 0..7 : (word \div pow2(bit)) % 2 = 1}

\* the bits set in any of the words given
AllBits(words) == UNION {WordBits(words[i]) : i \in 1..Len(words)}

\* C27: after any with_flag and with_mask calls build() gives flags that are
\* the bitwise OR of all flag arguments; the mask equals the flags when
\* with_mask was never called, and is the bitwise OR of the mask arguments,
\* whatever the flags, when it was. clone_with_new_mask replaces the mask and
\* keeps the flags.
C27_SessionFlagsAndMask ==
    /\ SessionBuilt =>
           /\ WordBits(call.out.flags) = AllBits(call.flags_given)
           /\ call.masks_given = <<>> => call.out.mask = call.out.flags
           /\ call.masks_given # <<>> =>
                  WordBits(call.out.mask) = AllBits(call.masks_given)
    /\ SessionCloned =>
           /\ call.out.mask = call.new_mask
           /\ call.out.flags = call.self.flags

C27_Witness ==
    /\ SessionBuilt
    /\ call.flags_given = <<1>>
    /\ call.masks_given = <<2, 1>>
    /\ call.out.flags = 1
    /\ call.out.mask = 3

----------------------------------------------------------------------------
(* PCR selection builder and conversions                                   *)

PcrSelectionsBuilt == call.op = "PcrSelectionsBuilder::build"

PcrSelectionsConverted == call.op = "TPML_PCR_SELECTION::from"

\* the slots whose bit is set in the four bytes of a pcrSelect
SelectedSlots(pcrSelect) ==
    {slot \in 0..31 : (pcrSelect[(slot \div 8) + 1] \div pow2(slot % 8)) % 2 = 1}

\* C21: after any with_selection calls the built mapping holds, for each hash
\* algorithm, exactly the union of the slots any call passed for it: calls
\* accumulate, a repeated call changes nothing, the order of the calls does
\* not matter. Entries with the same hash algorithm parsed by
\* PcrSelections::try_from are merged the same way.
C21_SelectionsMerge ==
    /\ PcrSelectionsBuilt =>
           LET given == {call.selections[i] : i \in 1..Len(call.selections)}
           IN /\ DOMAIN call.out.items = {g.hash_algorithm : g \in given}
              /\ \A h \in DOMAIN call.out.items :
                     call.out.items[h] =
                         UNION {slots_collect(g.pcr_slots) :
                                   g \in {x \in given : x.hash_algorithm = h}}
    /\ (PcrSelectionsParsed /\ call.out.kind = "Ok") =>
           LET entries == {call.self.pcrSelections[i] : i \in 1..call.self.count}
               items == unwrap(call.out.val).items
           IN /\ {HashingAlgorithm_into(h) : h \in DOMAIN items} =
                     {e.hash : e \in entries}
              /\ \A h \in DOMAIN items :
                     items[h] =
                         UNION {SelectedSlots(e.pcrSelect) :
                                   e \in {x \in entries :
                                             x.hash = HashingAlgorithm_into(h)}}

C21_Witness ==
    /\ PcrSelectionsBuilt
    /\ Len(call.selections) = 2
    /\ call.selections[1].hash_algorithm = call.selections[2].hash_algorithm
    /\ call.selections[1].pcr_slots = <<0, 8>>
    /\ call.selections[2].pcr_slots = <<23>>
    /\ call.out.items[call.selections[1].hash_algorithm] = {0, 8, 23}

\* C22 as stated: every PcrSelections the builder can produce, whatever
\* with_size_of_select and with_selection calls made it, none included,
\* converted to TPML_PCR_SELECTION and parsed back, gives an equal mapping
\* and an equal selection size.
C22_PcrRoundTrip ==
    (PcrSelectionsParsed /\ is_some(call.origin)) =>
        /\ call.out.kind = "Ok"
        /\ unwrap(call.out.val).items = unwrap(call.origin).items
        /\ unwrap(call.out.val).size_of_select = unwrap(call.origin).size_of_select

\* C22 amended: the round trip gives an equal mapping always, and an equal
\* selection size when the mapping has at least one hash algorithm; with an
\* empty mapping the selection size comes back as ThreeBytes.
C22_PcrRoundTripAmended ==
    (PcrSelectionsParsed /\ is_some(call.origin)) =>
        /\ call.out.kind = "Ok"
        /\ unwrap(call.out.val).items = unwrap(call.origin).items
        /\ DOMAIN unwrap(call.origin).items # {} =>
               unwrap(call.out.val).size_of_select =
                   unwrap(call.origin).size_of_select
        /\ DOMAIN unwrap(call.origin).items = {} =>
               unwrap(call.out.val).size_of_select = "ThreeBytes"

C22_Witness ==
    /\ PcrSelectionsParsed
    /\ is_some(call.origin)
    /\ unwrap(call.origin).size_of_select = "FourBytes"
    /\ DOMAIN unwrap(call.origin).items = {"Sha1", "Sha256"}
    /\ unwrap(call.origin).items["Sha256"] = {8, 23}
    /\ call.out.kind = "Ok"

\* C23: the conversion to TPML_PCR_SELECTION writes one entry per hash
\* algorithm of the mapping (count is the number of keys, no algorithm
\* twice), each with the stored selection size as sizeofSelect (3 when the
\* builder was given none) and with the algorithm's slots as a little-endian
\* bit mask in pcrSelect (slot 0 alone gives the bytes 1, 0, 0).
C23_PcrIntoRaw ==
    /\ PcrSelectionsConverted =>
           LET items == call.self.items
               written == 1..call.out.count
           IN /\ call.out.count = Cardinality(DOMAIN items)
              /\ {call.out.pcrSelections[i].hash : i \in written} =
                     {HashingAlgorithm_into(h) : h \in DOMAIN items}
              /\ \A i \in written :
                     /\ Some(call.self.size_of_select) =
                            PcrSelectSize_from_u8(call.out.pcrSelections[i].sizeofSelect)
                     /\ \A h \in DOMAIN items :
                            call.out.pcrSelections[i].hash = HashingAlgorithm_into(h) =>
                                SelectedSlots(call.out.pcrSelections[i].pcrSelect) = items[h]
    /\ PcrSelectionsBuilt =>
           /\ is_none(call.self.size_of_select) =>
                  call.out.size_of_select = "ThreeBytes"
           /\ is_some(call.self.size_of_select) =>
                  call.out.size_of_select = unwrap(call.self.size_of_select)

C23_Witness ==
    /\ PcrSelectionsConverted
    /\ call.self.size_of_select = "ThreeBytes"
    /\ DOMAIN call.self.items = {"Sha256"}
    /\ call.self.items["Sha256"] = {0}
    /\ call.out.count = 1
    /\ call.out.pcrSelections[1].sizeofSelect = 3
    /\ call.out.pcrSelections[1].pcrSelect = <<1, 0, 0, 0>>

\* C28: no parser or converter panics: every conversion of a raw
\* TPML_PCR_SELECTION, TPMS_CONTEXT or TPMT_SIGNATURE and of a Signature or
\* TpmsContext ends with Ok or a typed error.
C28_NoPanic ==
    call.op \in {"PcrSelections::try_from", "TpmsContext::try_from",
                 "TPMS_CONTEXT::try_from", "Signature::try_from",
                 "TPMT_SIGNATURE::try_from"} =>
        call.out.kind \in {"Ok", "InconsistentParams", "UnsupportedParam",
                           "InvalidParam", "WrongParamSize", "ParamsMissing"}

====
